---- MODULE Spec2Model ----
(***************************************************************************)
(* Model of the Translation Helps Python SDK client                        *)
(* (packages/python-sdk/translation_helps/client.py) and of the example    *)
(* chatbot's control loop (examples/python-chatbot/chatbot.py).            *)
(*                                                                         *)
(* Python values.  Every str, list and None is a sequence of string        *)
(* tokens: a str is the sequence of the pieces it is built from (so that   *)
(* "x in s" and concatenation are computed, not assumed), "" and [] are    *)
(* <<>>, and None is the one-token sequence None.  A dict is a record      *)
(* whose DOMAIN is its key set; {} is the empty function <<>>.             *)
(***************************************************************************)
EXTENDS Integers, Sequences, FiniteSets, TLC

VARIABLES
    client,         \* the TranslationHelpsClient instance (its fields)
    last,           \* the last public Client call that returned: what it sent, raised, returned
    tools_fetched,  \* a tools/list fetch has succeeded since construction / the last close()
    prompts_fetched, \* a prompts/list fetch has succeeded since construction / the last close()
    pc,             \* chatbot main(): the statement it is blocked at
    config,         \* chatbot: the quiet flag and the module-level language settings
    messages,       \* chatbot: the message transcript
    user_input,     \* chatbot: the input line of the current turn
    assistant_message, \* chatbot: the model reply being handled
    tasks,          \* chatbot: the execute_tool_call coroutines of the current fan-out
    shown,          \* chatbot: the "Assistant: ..." texts written since the last input prompt
    turns,          \* chatbot: the number of turns started
    caught,         \* chatbot: the exception caught at the top level of main()
    http_client,    \* chatbot: the shared client of the prompt executions, times opened and closed
    overlapping,    \* overlapping client calls: the transports created and each call's position
    discovery       \* discover_language_orgs: the catalog listing, the loop's position and its map

client_vars == <<client, last, tools_fetched, prompts_fetched>>

chat_vars == <<pc, config, messages, user_input, assistant_message, tasks, shown, turns, caught,
               http_client>>

vars == <<client_vars, chat_vars, overlapping, discovery>>

(* ------------------------------ bounds -------------------------------- *)

\* connect() after a failed connect() opens a new transport over the old one;
\* the number of transports left open and unreferenced is capped here.
MaxLeaked == 1

\* The chat loop of main() runs until the user quits; the number of turns
\* (non-empty, non-exit inputs) of a session is capped here.
MaxTurns == 2

\* The number of client calls that overlap on one client.
MaxCalls == 2

\* The number of resources of a catalog listing.
MaxResources == 3

\* The transcript of a session grows with every turn; a new turn is started
\* only while the transcript has fewer entries than this.
MaxTranscript == 7

(* --------------------------- Python helpers --------------------------- *)

None == <<"None">>

\* bool(x) of a str / list / None
Truthy(x) == x # None /\ x # <<>>

\* dict.get(k, default)
Get(d, k, default) == IF k \in DOMAIN d THEN d[k] ELSE default

\* "tok in s" on token sequences
Contains(s, tok) == \E i \in 1..Len(s) : s[i] = tok

NoExc == [type |-> "none", msg |-> <<>>]

Exc(t, m) == [type |-> t, msg |-> m]

Raised(e) == e.type # "none"

(* ------------------------- the remote server -------------------------- *)

\* An HTTP exchange as httpx reports it.
TransportFailure == [kind |-> "transport", msg |-> <<"timed out">>]

StatusFailure(code) == [kind |-> "status", code |-> code]

NotJson == [kind |-> "notjson"]

Json(data) == [kind |-> "json", data |-> data]

\* The {result: X} envelope of a reply carrying X
Wrapped(x) == [result |-> x]

\* Failures any request can meet: a transport error, a 5xx status, a body
\* that is not JSON, a JSON-RPC error member.
Failures ==
    { TransportFailure, StatusFailure(500), NotJson,
      Json([error |-> [message |-> <<"Internal error">>]]) }

\* Further answers of a server without prompt support
PromptsUnsupported ==
    { StatusFailure(404),
      Json([error |-> [message |-> <<"Method not found:", "prompts/list">>]]),
      Json([error |-> <<>>]) }

ServerInfo == [serverInfo |-> <<"translation-helps-mcp">>]

OneTool == <<"fetch_scripture">>

ToolLists == { <<>>, OneTool, <<"fetch_scripture", "fetch_translation_notes">> }

OnePrompt == <<"translation-helps-for-passage">>

PromptLists == { <<>>, OnePrompt }

\* A tools/call result whose content list holds one text item
TextContent(text) == [content |-> <<[type |-> "text", text |-> text]>>]

\* Text payloads: plain text, a JSON object, JSON that decodes to an empty
\* or null value, the empty string.
PlainText == <<"For God so loved the world">>

JsonObjectText == <<"{", "notes", ":", "n1", "}">>

Texts == { PlainText, JsonObjectText, <<"{", "}">>, <<"null">>, <<>> }

ContentPayloads ==
    { TextContent(t) : t \in Texts }
        \cup { [content |-> <<[type |-> "image"]>>],     \* first item without text
               [content |-> <<>>],                       \* empty content list
               <<>> }                                    \* no content list

PromptMessages == [messages |-> <<"m1">>]

\* What the server may answer to `method`: a failure, the result itself, or
\* the result in the {result: X} envelope.
RepliesFor(method) ==
    CASE method = "initialize" ->
            Failures \cup { Json(ServerInfo), Json([protocolVersion |-> <<"1">>]),
                            Json(Wrapped(ServerInfo)) }
      [] method = "tools/list" ->
            Failures \cup { Json([tools |-> t]) : t \in ToolLists }
                     \cup { Json(<<>>), Json(Wrapped([tools |-> OneTool])) }
      [] method = "prompts/list" ->
            Failures \cup PromptsUnsupported
                     \cup { Json([prompts |-> p]) : p \in PromptLists }
                     \cup { Json(Wrapped([prompts |-> OnePrompt])) }
      [] method = "tools/call" ->
            Failures \cup { Json(x) : x \in ContentPayloads }
                     \cup { Json(Wrapped(TextContent(PlainText))) }
      [] OTHER ->
            Failures \cup { Json(PromptMessages), Json(Wrapped(PromptMessages)) }

\* str(e) of httpx.HTTPStatusError raised by raise_for_status()
StatusMessage(code) ==
    IF code >= 500
    THEN <<"Server error", "500", "Internal Server Error", "for url">>
    ELSE <<"Client error", "404", "Not Found", "for url">>

(* ----------------------------- the Client ----------------------------- *)

\* TranslationHelpsClient.__init__
NewClient ==
    [ tools_cache   |-> None,
      prompts_cache |-> None,
      initialized   |-> FALSE,
      http_client   |-> FALSE,     \* self._http_client is not None
      leaked        |-> 0 ]        \* transports opened, never closed, no longer referenced

\* Mutant of send_request: the httpx.HTTPError is not wrapped (no except clause).
send_request_unwrapped(c, reply) ==
    IF ~c.http_client
    THEN [exc |-> Exc("RuntimeError", <<"Client not connected. Call connect() first.">>), data |-> <<>>]
    ELSE CASE reply.kind = "transport" ->
                [exc |-> Exc("HTTPError", reply.msg), data |-> <<>>]
           [] reply.kind = "status" ->
                [exc |-> Exc("HTTPError", StatusMessage(reply.code)), data |-> <<>>]
           [] reply.kind = "notjson" ->
                [exc |-> Exc("JSONDecodeError", <<"Expecting value">>), data |-> <<>>]
           [] OTHER ->
                IF "error" \in DOMAIN reply.data
                THEN [exc |-> Exc("RuntimeError", Get(reply.data.error, "message", <<"MCP server error">>)),
                      data |-> <<>>]
                ELSE [exc |-> NoExc, data |-> reply.data]

\* _send_request against one reply: [exc, data]
send_request(c, reply) ==
    IF ~c.http_client
    THEN [exc |-> Exc("RuntimeError", <<"Client not connected. Call connect() first.">>), data |-> <<>>]
    ELSE CASE reply.kind = "transport" ->
                [exc |-> Exc("ConnectionError", <<"HTTP error:">> \o reply.msg), data |-> <<>>]
           [] reply.kind = "status" ->
                [exc |-> Exc("ConnectionError", <<"HTTP error:">> \o StatusMessage(reply.code)), data |-> <<>>]
           [] reply.kind = "notjson" ->
                [exc |-> Exc("JSONDecodeError", <<"Expecting value">>), data |-> <<>>]
           [] OTHER ->
                IF "error" \in DOMAIN reply.data
                THEN [exc |-> Exc("RuntimeError", Get(reply.data.error, "message", <<"MCP server error">>)),
                      data |-> <<>>]
                ELSE [exc |-> NoExc, data |-> reply.data]

\* A run of a handler is [c, exc, sent, errs, replies, ret]: the client
\* after it, what it raised to its caller, the requests it sent, what
\* _send_request raised for each of them (NoExc: answered), the replies the
\* server gave, and what the handler returned (NoReturn when it raised).  A
\* handler is the set of its runs, one per way the server may answer.
Run(c, e, s, es, rs, r) ==
    [c |-> c, exc |-> e, sent |-> s, errs |-> es, replies |-> rs, ret |-> r]

NoReturn == <<>>

\* One request: _send_request(method) against every reply the server may give
request(c, method) ==
    { LET r == send_request(c, reply)
      IN  Run(c, r.exc, <<method>>, <<r.exc>>, <<reply>>, r.data)
      : reply \in RepliesFor(method) }

\* Handler `first` followed by what `second` appends to it
Then(first, second, c, e, r) ==
    Run(c, e, first.sent \o second.sent, first.errs \o second.errs,
        first.replies \o second.replies, r)

\* Mutant of refresh_tools: a failed fetch empties the cache.
refresh_tools_clearing(c) ==
    { IF Raised(q.exc)
      THEN [q EXCEPT !.c.tools_cache = <<>>, !.ret = NoReturn]
      ELSE [q EXCEPT !.c.tools_cache = Get(q.ret, "tools", <<>>), !.ret = None]
      : q \in request(c, "tools/list") }

\* _refresh_tools
refresh_tools(c) ==
    { IF Raised(q.exc)
      THEN [q EXCEPT !.ret = NoReturn]
      ELSE [q EXCEPT !.c.tools_cache = Get(q.ret, "tools", <<>>), !.ret = None]
      : q \in request(c, "tools/list") }

\* _refresh_prompts
refresh_prompts(c) ==
    { IF Raised(q.exc)
      THEN [q EXCEPT !.ret = NoReturn]
      ELSE [q EXCEPT !.c.prompts_cache = Get(q.ret, "prompts", <<>>), !.ret = None]
      : q \in request(c, "prompts/list") }

\* connect(): the test of line 88 on str(e)
PromptsFailureTolerated(e) == Contains(e.msg, "prompts/list") \/ Contains(e.msg, "500")

\* Mutant of ConnectFailure: the exception is re-raised as it is.
ConnectFailure_reraised(e) == e

\* connect(): the outer except of lines 96-99
ConnectFailure(e) == Exc("ConnectionError", <<"Failed to connect to MCP server:">> \o e.msg)

\* Mutant of connect_prompts: every prompts/list failure is swallowed.
connect_prompts_swallowing_all(before) ==
    { IF ~Raised(p.exc)
      THEN Run([p.c EXCEPT !.initialized = TRUE], NoExc, before.sent \o p.sent,
               before.errs \o p.errs, before.replies \o p.replies, None)
      ELSE Run([p.c EXCEPT !.prompts_cache = <<>>, !.initialized = TRUE], NoExc,
               before.sent \o p.sent, before.errs \o p.errs, before.replies \o p.replies, None)
      : p \in refresh_prompts(before.c) }

\* connect(): the inner try of lines 82-93 around _refresh_prompts, then line 95
connect_prompts(before) ==
    { IF ~Raised(p.exc)
      THEN Then(before, p, [p.c EXCEPT !.initialized = TRUE], NoExc, None)
      ELSE LET c3 == [p.c EXCEPT !.prompts_cache = <<>>]
           IN  IF PromptsFailureTolerated(p.exc)
               THEN Then(before, p, [c3 EXCEPT !.initialized = TRUE], NoExc, None)
               ELSE Then(before, p, c3, ConnectFailure(p.exc), NoReturn)
      : p \in refresh_prompts(before.c) }

\* connect(): lines 79-95, once initialize has answered with serverInfo
connect_caches(before) ==
    UNION { IF Raised(t.exc)
            THEN { Then(before, t, t.c, ConnectFailure(t.exc), NoReturn) }
            ELSE connect_prompts(Then(before, t, t.c, NoExc, None))
          : t \in refresh_tools(before.c) }

\* Mutant of connect: no early return on a connected client.
connect_again(c) ==
    LET c1 == [c EXCEPT !.http_client = TRUE,
                        !.leaked = IF c.http_client THEN @ + 1 ELSE @]
    IN  UNION { IF Raised(q.exc)
                THEN { [q EXCEPT !.exc = ConnectFailure(q.exc), !.ret = NoReturn] }
                ELSE IF "serverInfo" \notin DOMAIN q.ret
                THEN { [q EXCEPT !.exc = ConnectFailure(Exc("ValueError",
                                   <<"Invalid server response: missing serverInfo">>)),
                                 !.ret = NoReturn] }
                ELSE connect_caches([q EXCEPT !.ret = None])
              : q \in request(c1, "initialize") }

\* connect()
connect(c) ==
    IF c.initialized
    THEN { Run(c, NoExc, <<>>, <<>>, <<>>, None) }
    ELSE LET c1 == [c EXCEPT !.http_client = TRUE,
                             !.leaked = IF c.http_client THEN @ + 1 ELSE @]
         IN  UNION { IF Raised(q.exc)
                     THEN { [q EXCEPT !.exc = ConnectFailure(q.exc), !.ret = NoReturn] }
                     ELSE IF "serverInfo" \notin DOMAIN q.ret
                     THEN { [q EXCEPT !.exc = ConnectFailure(Exc("ValueError",
                                        <<"Invalid server response: missing serverInfo">>)),
                                      !.ret = NoReturn] }
                     ELSE connect_caches([q EXCEPT !.ret = None])
                   : q \in request(c1, "initialize") }

\* Mutant of close: the caches are dropped with the transport.
close_clearing(c) ==
    [c EXCEPT !.http_client = FALSE, !.initialized = FALSE,
              !.tools_cache = None, !.prompts_cache = None]

\* close()
close(c) == [c EXCEPT !.http_client = FALSE, !.initialized = FALSE]

\* Mutant of ensure_initialized: no lazy connect.
ensure_initialized_skipped(c) == { Run(c, NoExc, <<>>, <<>>, <<>>, None) }

\* _ensure_initialized
ensure_initialized(c) ==
    IF ~c.initialized THEN connect(c) ELSE { Run(c, NoExc, <<>>, <<>>, <<>>, None) }

\* "self.tools_cache or []"
OrEmpty(x) == IF Truthy(x) THEN x ELSE <<>>

\* list_tools()
list_tools(c) ==
    UNION { IF Raised(e.exc)
            THEN { e }
            ELSE IF ~Truthy(e.c.tools_cache)
            THEN { Then(e, t, t.c, t.exc,
                        IF Raised(t.exc) THEN NoReturn ELSE OrEmpty(t.c.tools_cache))
                   : t \in refresh_tools(e.c) }
            ELSE { [e EXCEPT !.ret = OrEmpty(e.c.tools_cache)] }
          : e \in ensure_initialized(c) }

\* list_prompts()
list_prompts(c) ==
    UNION { IF Raised(e.exc)
            THEN { e }
            ELSE IF ~Truthy(e.c.prompts_cache)
            THEN { Then(e, p, p.c, p.exc,
                        IF Raised(p.exc) THEN NoReturn ELSE OrEmpty(p.c.prompts_cache))
                   : p \in refresh_prompts(e.c) }
            ELSE { [e EXCEPT !.ret = OrEmpty(e.c.prompts_cache)] }
          : e \in ensure_initialized(c) }

\* The body shared by call_tool(name, arguments) and get_prompt(name,
\* arguments): `method` is "tools/call" or "prompts/get"; the response is
\* returned as received.
request_after_init(c, method) ==
    UNION { IF Raised(e.exc)
            THEN { e }
            ELSE { Then(e, q, q.c, q.exc, q.ret) : q \in request(e.c, method) }
          : e \in ensure_initialized(c) }

\* Mutant of call_tool: the tools cache is fetched again before the call.
call_tool_refreshing(c) ==
    UNION { IF Raised(t.exc)
            THEN { t }
            ELSE { Then(t, q, q.c, q.exc, q.ret) : q \in request_after_init(t.c, "tools/call") }
          : t \in refresh_tools(c) }

\* call_tool()
call_tool(c) == request_after_init(c, "tools/call")

\* get_prompt()
get_prompt(c) == request_after_init(c, "prompts/get")

\* Mutant of check_prompts_support: the answer is read off the prompts cache.
check_prompts_support_from_cache(c) ==
    UNION { IF Raised(e.exc)
            THEN { e }
            ELSE { [e EXCEPT !.ret = Truthy(e.c.prompts_cache)] }
          : e \in ensure_initialized(c) }

\* check_prompts_support(): _ensure_initialized() stands before the try,
\* the fetch inside it
check_prompts_support(c) ==
    UNION { IF Raised(e.exc)
            THEN { e }
            ELSE { Then(e, p, p.c, NoExc, ~Raised(p.exc)) : p \in refresh_prompts(e.c) }
          : e \in ensure_initialized(c) }

\* get_capabilities(): the dict is built from the tools cache before the
\* probe runs; an exception of the probe is caught
get_capabilities(c) ==
    UNION { IF Raised(e.exc)
            THEN { e }
            ELSE LET tools_supported == e.c.tools_cache # None /\ Len(e.c.tools_cache) > 0
                 IN  { Then(e, s, s.c, NoExc,
                            [ tools_supported   |-> tools_supported,
                              prompts_supported |-> IF Raised(s.exc) THEN FALSE ELSE s.ret ])
                       : s \in check_prompts_support(e.c) }
          : e \in ensure_initialized(c) }

(* ------------------------ convenience methods ----------------------- *)

\* Python values a convenience method returns: a str, or what json.loads
\* gives (a dict, None).
StrValue(t) == [kind |-> "str", val |-> t]

DictValue(d) == [kind |-> "dict", val |-> d]

NoneValue == [kind |-> "none"]

NoValue == [kind |-> "raised"]

\* bool(v) is False
Falsy(v) ==
    \/ v.kind = "none"
    \/ v.kind = "str" /\ v.val = <<>>
    \/ v.kind = "dict" /\ DOMAIN v.val = {}

\* json.loads(text) on the JSON documents of this model: null, {} and a
\* one-member object; anything else is not JSON.
json_loads(text) ==
    IF text = <<"null">>
    THEN [exc |-> NoExc, value |-> NoneValue]
    ELSE IF text = <<"{", "}">>
    THEN [exc |-> NoExc, value |-> DictValue(<<>>)]
    ELSE IF Len(text) = 5 /\ text[1] = "{" /\ text[3] = ":" /\ text[5] = "}"
    THEN [exc |-> NoExc, value |-> DictValue([k \in {text[2]} |-> <<text[4]>>])]
    ELSE [exc |-> Exc("JSONDecodeError", <<"Expecting value">>), value |-> NoValue]

\* The methods whose arguments carry "language" and "organization" with the
\* defaults "en" and "unfoldingWord"
FetchMethods ==
    { "fetch_scripture", "fetch_translation_notes", "fetch_translation_questions",
      "fetch_translation_word", "fetch_translation_word_links", "fetch_translation_academy" }

DiscoveryMethods ==
    { "get_languages", "list_languages", "list_subjects", "list_resources_by_language",
      "list_resources_for_language", "search_translation_word_across_languages" }

ConvenienceMethods == FetchMethods \cup DiscoveryMethods \cup { "get_system_prompt" }

\* {**a, **b}
Merge(a, b) == [k \in DOMAIN a \cup DOMAIN b |-> IF k \in DOMAIN b THEN b[k] ELSE a[k]]

\* The dict restricted to the keys in ks
Only(d, ks) == [k \in ks |-> d[k]]

\* Mutant of LanguageArgument: the caller's language is ignored.
LanguageArgument_ignoring_caller(o) == <<"en">>

\* options.get("language", "en")
LanguageArgument(o) == Get(o, "language", <<"en">>)

\* options.get("organization", "unfoldingWord")
OrganizationArgument(o) == Get(o, "organization", <<"unfoldingWord">>)

\* The arguments dict each method builds from the caller's options
Arguments(m, o) ==
    CASE m = "fetch_scripture" ->
            [ reference           |-> o.reference,
              language            |-> LanguageArgument(o),
              organization        |-> OrganizationArgument(o),
              format              |-> Get(o, "format", <<"text">>),
              includeVerseNumbers |-> Get(o, "includeVerseNumbers", <<"True">>) ]
      [] m = "fetch_translation_notes" ->
            [ reference      |-> o.reference,
              language       |-> LanguageArgument(o),
              organization   |-> OrganizationArgument(o),
              includeIntro   |-> Get(o, "includeIntro", <<"True">>),
              includeContext |-> Get(o, "includeContext", <<"True">>) ]
      [] m \in {"fetch_translation_questions", "fetch_translation_word_links"} ->
            [ reference    |-> o.reference,
              language     |-> LanguageArgument(o),
              organization |-> OrganizationArgument(o) ]
      [] m = "fetch_translation_word" ->
            [ reference    |-> Get(o, "reference", None),
              term         |-> Get(o, "term", None),
              language     |-> LanguageArgument(o),
              organization |-> OrganizationArgument(o),
              category     |-> Get(o, "category", None) ]
      [] m = "fetch_translation_academy" ->
            [ reference    |-> Get(o, "reference", None),
              rcLink       |-> Get(o, "rcLink", None),
              moduleId     |-> Get(o, "moduleId", None),
              path         |-> Get(o, "path", None),
              language     |-> LanguageArgument(o),
              organization |-> OrganizationArgument(o),
              format       |-> Get(o, "format", <<"json">>) ]
      [] m = "get_languages" ->
            [ organization |-> Get(o, "organization", None) ]
      [] m = "list_languages" ->
            [ organization |-> Get(o, "organization", None),
              stage        |-> Get(o, "stage", <<"prod">>) ]
      [] m = "list_subjects" ->
            [ language     |-> Get(o, "language", None),
              organization |-> Get(o, "organization", None),
              stage        |-> Get(o, "stage", <<"prod">>) ]
      [] m = "list_resources_by_language" ->
            Merge([ stage |-> Get(o, "stage", <<"prod">>) ],
                  Only(o, { k \in DOMAIN o :
                              \/ k \in {"subjects", "limit", "topic"} /\ Truthy(o[k])
                              \/ k = "organization" /\ o[k] # None }))
      [] m = "list_resources_for_language" ->
            Merge([ language |-> o.language, stage |-> Get(o, "stage", <<"prod">>) ],
                  Only(o, { k \in DOMAIN o :
                              \/ k \in {"subject", "limit", "topic"} /\ Truthy(o[k])
                              \/ k = "organization" /\ o[k] # None }))
      [] m = "search_translation_word_across_languages" ->
            Merge([ term         |-> o.term,
                    organization |-> OrganizationArgument(o),
                    limit        |-> Get(o, "limit", <<"20">>) ],
                  Only(o, { k \in DOMAIN o : k = "languages" /\ Truthy(o[k]) }))
      [] OTHER ->
            [ includeImplementationDetails |-> Get(o, "include_implementation_details", <<"False">>) ]

\* The option a method refuses to run without (lines 423 and 470), or None
RequiredOption(m) ==
    CASE m = "list_resources_for_language" -> "language"
      [] m = "search_translation_word_across_languages" -> "term"
      [] OTHER -> "None"

\* "response.get("content") and response["content"][0].get("text")"
HasTextPayload(response) ==
    /\ "content" \in DOMAIN response
    /\ Len(response.content) > 0
    /\ "text" \in DOMAIN response.content[1]
    /\ Truthy(response.content[1].text)

\* What a method returns for a text payload: the text itself from the
\* str-typed methods (and fetch_translation_academy asked for markdown),
\* json.loads(text) from the others.
ReturnsText(m, o) ==
    \/ m \in {"fetch_scripture", "get_system_prompt"}
    \/ m = "fetch_translation_academy" /\ Get(o, "format", None) = <<"markdown">>

\* Mutant of unwrap_text: a missing text payload gives "" instead of raising.
unwrap_text_or_empty(m, o, response) ==
    IF HasTextPayload(response)
    THEN LET text == response.content[1].text
         IN  IF ReturnsText(m, o)
             THEN [exc |-> NoExc, value |-> StrValue(text)]
             ELSE json_loads(text)
    ELSE [exc |-> NoExc, value |-> StrValue(<<>>)]

\* The part of a convenience method after call_tool has returned `response`
unwrap_text(m, o, response) ==
    IF HasTextPayload(response)
    THEN LET text == response.content[1].text
         IN  IF ReturnsText(m, o)
             THEN [exc |-> NoExc, value |-> StrValue(text)]
             ELSE json_loads(text)
    ELSE [exc |-> Exc("ValueError", <<"Invalid response format from", m>>), value |-> NoValue]

\* A convenience method called with options o
convenience(c, m, o) ==
    IF RequiredOption(m) # "None" /\ ~Truthy(Get(o, RequiredOption(m), None))
    THEN { Run(c, Exc("ValueError", <<RequiredOption(m), "parameter is required for", m>>),
               <<>>, <<>>, <<>>, NoValue) }
    ELSE { IF Raised(r.exc)
           THEN [r EXCEPT !.ret = NoValue]
           ELSE LET u == unwrap_text(m, o, r.ret)
                IN  [r EXCEPT !.exc = u.exc, !.ret = u.value]
           : r \in call_tool(c) }

\* The callers' options: the required option of the method, with or without
\* a language and an organization of the caller's own.
Overrides ==
    { <<>>, [language |-> <<"es">>], [organization |-> <<"testOrg">>],
      [language |-> <<"es">>, organization |-> <<"testOrg">>] }

OptionsFor(m) ==
    CASE m \in FetchMethods \ {"fetch_translation_word", "fetch_translation_academy"} ->
            { Merge([reference |-> <<"John 3:16">>], ov) : ov \in Overrides }
      [] m = "fetch_translation_word" ->
            { Merge([term |-> <<"love">>], ov) : ov \in Overrides }
      [] m = "fetch_translation_academy" ->
            { Merge([moduleId |-> <<"figs-metaphor">>], ov) : ov \in Overrides }
                \cup { [moduleId |-> <<"figs-metaphor">>, format |-> <<"markdown">>] }
      [] m = "search_translation_word_across_languages" ->
            { Merge([term |-> <<"love">>], ov) : ov \in Overrides } \cup { <<>> }
      [] m = "get_system_prompt" -> { <<>> }
      [] OTHER -> Overrides

(* ------------------------ the sequential client ----------------------- *)
(* One caller uses the client, one call at a time: a call runs to its end  *)
(* and `last` holds what the caller saw of it; the caller then takes the   *)
(* result (Resume) and is free to make the next call.                      *)

Idle == [op |-> "idle"]

Returned(op, run) ==
    [op |-> op, exc |-> run.exc, sent |-> run.sent, errs |-> run.errs,
     replies |-> run.replies, ret |-> run.ret]

\* Request `method` was sent and answered in this run.
Answered(run, method) ==
    \E i \in 1..Len(run.sent) : run.sent[i] = method /\ ~Raised(run.errs[i])

\* The chatbot is not running while the client is used on its own.
NoChat ==
    /\ pc = "not_started"
    /\ config = <<>>
    /\ messages = <<>>
    /\ user_input = None
    /\ assistant_message = <<>>
    /\ tasks = <<>>
    /\ shown = <<>>
    /\ turns = 0
    /\ caught = NoExc
    /\ http_client = [opened |-> 0, closed |-> 0]

\* No client calls overlap: each call returns before the next is made.
NoCalls == [created |-> 0, of |-> <<>>]

\* discover_language_orgs is not called.
NoDiscovery == [state |-> "not_called"]

Init ==
    /\ client = NewClient
    /\ last = Idle
    /\ tools_fetched = FALSE
    /\ prompts_fetched = FALSE
    /\ NoChat
    /\ overlapping = NoCalls
    /\ discovery = NoDiscovery

Apply(op, run) ==
    /\ run.c.leaked <= MaxLeaked
    /\ client' = run.c
    /\ last' = Returned(op, run)
    /\ tools_fetched' = (tools_fetched \/ Answered(run, "tools/list"))
    /\ prompts_fetched' = (prompts_fetched \/ Answered(run, "prompts/list"))
    /\ UNCHANGED <<chat_vars, overlapping, discovery>>

Connect == last = Idle /\ \E run \in connect(client) : Apply("connect", run)

ListTools == last = Idle /\ \E run \in list_tools(client) : Apply("list_tools", run)

ListPrompts == last = Idle /\ \E run \in list_prompts(client) : Apply("list_prompts", run)

CallTool == last = Idle /\ \E run \in call_tool(client) : Apply("call_tool", run)

GetPrompt == last = Idle /\ \E run \in get_prompt(client) : Apply("get_prompt", run)

GetCapabilities ==
    last = Idle /\ \E run \in get_capabilities(client) : Apply("get_capabilities", run)

Close ==
    /\ last = Idle
    /\ client' = close(client)
    /\ last' = Returned("close", Run(client, NoExc, <<>>, <<>>, <<>>, None))
    /\ tools_fetched' = FALSE
    /\ prompts_fetched' = FALSE
    /\ UNCHANGED <<chat_vars, overlapping, discovery>>

\* A convenience method, called on a connected client (on a client that is
\* not connected its call_tool connects first, as CallTool does).
Convenience ==
    /\ last = Idle
    /\ client.initialized
    /\ \E m \in ConvenienceMethods : \E o \in OptionsFor(m) : \E run \in convenience(client, m, o) :
          /\ client' = run.c
          /\ last' = [ op |-> "convenience", method |-> m, options |-> o,
                       args |-> IF run.sent = <<>> THEN <<>> ELSE Arguments(m, o),
                       exc |-> run.exc, sent |-> run.sent, errs |-> run.errs,
                       replies |-> run.replies, ret |-> run.ret ]
          /\ UNCHANGED <<tools_fetched, prompts_fetched>>
          /\ UNCHANGED <<chat_vars, overlapping, discovery>>

\* The caller takes the result of the call.
Resume ==
    /\ last # Idle
    /\ last' = Idle
    /\ UNCHANGED <<client, tools_fetched, prompts_fetched>>
    /\ UNCHANGED <<chat_vars, overlapping, discovery>>

Next ==
    \/ Connect \/ ListTools \/ ListPrompts \/ CallTool \/ GetPrompt \/ GetCapabilities
    \/ Close \/ Convenience \/ Resume

Spec == Init /\ [][Next]_vars

(* ============================ the chatbot ============================= *)
(* examples/python-chatbot/chatbot.py, main().  The model calls are        *)
(* synchronous, so main() yields only at its awaits; a step of the model   *)
(* runs main() from one request (an await, the input prompt, a model       *)
(* call) to the next.                                                      *)

(* ------------------------------ strings ------------------------------- *)

\* str.lower() on one token
LowerToken(tok) ==
    CASE tok = "Quit" -> "quit"
      [] tok = "John" -> "john"
      [] tok = "Would you like" -> "would you like"
      [] OTHER -> tok

\* str.lower()
lower(s) == [i \in 1..Len(s) |-> LowerToken(s[i])]

\* str.title() on one token
Title(tok) == IF tok = "john" THEN "John" ELSE tok

\* The input lines, after strip()
Inputs == { <<"Quit">>, <<>>, <<"hello">>, <<"John", "3:16">> }

exit_words == { <<"quit">>, <<"exit">>, <<"q">> }

\* Part of the keyword list of line 442
bible_keywords == { "bible", "scripture", "verse", "john", "matthew" }

followup_indicators ==
    { "would you like", "should we", "would you like to", "do you want to",
      "want to explore", "interested in", "follow-up", "next step" }

\* any(indicator in content_lower for indicator in followup_indicators)
has_followups(content) ==
    \E i \in 1..Len(content) : LowerToken(content[i]) \in followup_indicators

\* The tokens the pattern ([1-3]?\s?[a-z]+)\s+(\d+):(\d+) matches
BookWords == { "john", "hello", "quit" }

ChapterVerses == { "3:16" }

\* re.search(ref_pattern, question): "Book c:v" of the first match, or None
reference_match(question) ==
    LET hits == { i \in 1..(Len(question) - 1) :
                    question[i] \in BookWords /\ question[i + 1] \in ChapterVerses }
    IN  IF hits = {}
        THEN None
        ELSE LET i == CHOOSE i \in hits : \A j \in hits : i <= j
             IN  <<Title(question[i]), question[i + 1]>>

\* The follow-up questions appended to a reply that has none
followup_text(question) ==
    LET ref == reference_match(lower(question))
    IN  <<"Would you like to explore more?", "Would you like", "to see the translation notes for">>
            \o (IF ref # None THEN ref ELSE <<"this verse">>)

(* --------------------------- the transcript --------------------------- *)

SystemMessage(content) == [role |-> "system", content |-> content]

UserMessage(content) == [role |-> "user", content |-> content]

\* The transcript entry of a model reply: tool_calls only when it has some
AssistantEntry(am) ==
    IF am.tool_calls # <<>>
    THEN [role |-> "assistant", content |-> am.content, tool_calls |-> am.tool_calls]
    ELSE [role |-> "assistant", content |-> am.content]

\* Mutant of ToolMessage: the entry is filed under the tool's name.
ToolMessage_under_name(result) ==
    [role |-> "tool", tool_call_id |-> result.name, name |-> result.name,
     content |-> result.content]

ToolMessage(result) ==
    [role |-> "tool", tool_call_id |-> result.tool_call_id, name |-> result.name,
     content |-> result.content]

SYSTEM_PROMPT(cfg) ==
    <<"You are a Bible study assistant", "Language:">> \o cfg.selected_language
        \o <<"Organization:">> \o cfg.selected_organization

UseToolsReminder == <<"The user asked about Bible or translation content, but you didn't use any tools.">>

NoDataReminder == <<"IMPORTANT: All tool overlapping returned", "[NO_DATA]", "or", "[ERROR]">>

FollowUpReminder == <<"CRITICAL REMINDER: Your response MUST end with 2-3 follow-up questions.">>

PoliteMessage == <<"Let me gather that information for you...">>

\* Mutant of replace_last: the entry before the last one is replaced.
replace_before_last(msgs, entry) == [msgs EXCEPT ![Len(msgs) - 1] = entry]

\* messages[-1] = entry
replace_last(msgs, entry) == [msgs EXCEPT ![Len(msgs)] = entry]

(* ------------------------------ the model ----------------------------- *)

\* message.content of a reply: None, a text, a text with follow-up questions
PlainAnswer == <<"Here is what the resources say.">>

AnswerWithFollowUp == <<"Here is what the resources say.", "Would you like", "to see the notes?">>

ModelContents == { None, PlainAnswer, AnswerWithFollowUp }

\* function.arguments of a tool call: JSON objects without and with a
\* language, a truncated document, and null
ArgumentsWithoutLanguage == <<"{", "reference", ":", "John 3:16", "}">>

ArgumentsWithLanguage == <<"{", "language", ":", "es-MX", "}">>

ArgumentsTruncated == <<"{", "reference">>

ArgumentsNull == <<"null">>

ToolCall(id, name, arguments) == [id |-> id, name |-> name, arguments |-> arguments]

ToolName == <<"fetch_scripture">>

PromptToolName == <<"prompt_", "translation-helps-for-passage">>

\* message.tool_calls of a reply; none is the empty sequence; the last is a
\* prompt whose own name contains "prompt_"
ToolCallLists ==
    { <<>>,
      <<ToolCall("call_1", ToolName, ArgumentsWithoutLanguage)>>,
      <<ToolCall("call_1", ToolName, ArgumentsNull)>>,
      <<ToolCall("call_1", ToolName, ArgumentsWithoutLanguage),
        ToolCall("call_2", ToolName, ArgumentsTruncated)>>,
      <<ToolCall("call_1", PromptToolName, ArgumentsWithoutLanguage),
        ToolCall("call_2", ToolName, ArgumentsWithLanguage)>>,
      <<ToolCall("call_1", <<"prompt_", "review-", "prompt_", "quality">>,
                 ArgumentsWithoutLanguage)>> }

ModelRaises == [kind |-> "raises"]

ModelMessage(content, tool_calls) ==
    [kind |-> "message", content |-> content, tool_calls |-> tool_calls]

\* What chat.completions.create gives when tools are offered
ModelReplies ==
    { ModelRaises }
        \cup { ModelMessage(c, <<>>) : c \in ModelContents }
        \cup { ModelMessage(None, calls) : calls \in ToolCallLists \ { <<>> } }
        \cup { ModelMessage(AnswerWithFollowUp, <<ToolCall("call_1", ToolName, ArgumentsWithoutLanguage)>>) }

\* What chat.completions.create gives for the final call, made without tools
FinalReplies == { ModelRaises } \cup { ModelMessage(c, <<>>) : c \in ModelContents }

ModelError == Exc("APIConnectionError", <<"Connection error.">>)

NoneHasNoLower == Exc("AttributeError", <<"'NoneType' object has no attribute 'lower'">>)

(* ------------------------- execute_tool_call -------------------------- *)

\* language_org_discovery.map_language_to_catalog_code
map_language_to_catalog_code(language) ==
    IF language \in { <<"es">>, <<"es-MX">>, <<"es-AR">>, <<"es-CO">>, <<"es-CL">>, <<"es-PE">> }
    THEN <<"es-419">>
    ELSE language

\* json.dumps of a dict of at most one member
json_dumps(d) ==
    IF DOMAIN d = {}
    THEN <<"{", "}">>
    ELSE LET k == CHOOSE k \in DOMAIN d : TRUE
         IN  <<"{", k, ":">> \o d[k] \o <<"}">>

\* execute_tool_call up to its try: the arguments are decoded and the
\* language and organization merged in.  [exc, args]
tool_args(cfg, tool_call) ==
    LET decoded == json_loads(tool_call.arguments)
    IN  IF Raised(decoded.exc)
        THEN [exc |-> decoded.exc, args |-> <<>>]
        ELSE IF decoded.value.kind # "dict"
        THEN [exc |-> Exc("TypeError", <<"argument of type 'NoneType' is not iterable">>),
              args |-> <<>>]
        ELSE LET given == decoded.value.val
                 language == IF "language" \in DOMAIN given
                             THEN map_language_to_catalog_code(given.language)
                             ELSE map_language_to_catalog_code(cfg.selected_language)
                 organization == IF "organization" \in DOMAIN given
                                 THEN given.organization
                                 ELSE cfg.selected_organization
             IN  [exc |-> NoExc,
                  args |-> Merge(given, [language |-> language, organization |-> organization])]

\* tool_name.startswith("prompt_")
is_prompt(tool_name) == tool_name # <<>> /\ tool_name[1] = "prompt_"

\* tool_name.replace("prompt_", "")
prompt_name(tool_name) == SelectSeq(tool_name, LAMBDA tok : tok # "prompt_")

ToolResult(tool_call, content) ==
    [tool_call_id |-> tool_call.id, name |-> tool_call.name, content |-> content]

NoDataFromTool == <<"[NO_DATA]", "The tool returned no information.">>

NoDataFromPrompt == <<"[NO_DATA]", "The prompt returned no information.">>

\* The except clause of execute_tool_call
error_result(tool_call, e) ==
    ToolResult(tool_call, <<"[ERROR]", "The tool call failed:">> \o e.msg)

\* A JSON document that is a string
JsonString(text) == [kind |-> "jsonstr", text |-> text]

\* The replies of the execute-prompt REST path
PromptReplies ==
    { StatusFailure(500),
      Json([error |-> <<"Prompt not found">>]),
      Json([passage |-> PlainText]),
      JsonString(<<>>) }

\* The prompt branch of execute_tool_call, from the reply on: the exception
\* raised inside the try and the text extracted.  [exc, text]
prompt_data(reply) ==
    CASE reply.kind = "transport" -> [exc |-> Exc("HTTPError", reply.msg), text |-> <<>>]
      [] reply.kind = "status" ->
            [exc |-> Exc("HTTPStatusError", StatusMessage(reply.code)), text |-> <<>>]
      [] reply.kind = "notjson" ->
            [exc |-> Exc("JSONDecodeError", <<"Expecting value">>), text |-> <<>>]
      [] reply.kind = "jsonstr" -> [exc |-> NoExc, text |-> reply.text]
      [] OTHER ->
            IF "error" \in DOMAIN reply.data /\ Truthy(reply.data.error)
            THEN [exc |-> Exc("Exception", <<"Prompt execution failed:">>
                                  \o Get(reply.data, "message", reply.data.error)),
                  text |-> <<>>]
            ELSE [exc |-> NoExc, text |-> json_dumps(reply.data)]

\* The result the prompt branch returns
prompt_result(tool_call, outcome) ==
    IF Raised(outcome.exc)
    THEN error_result(tool_call, outcome.exc)
    ELSE ToolResult(tool_call, IF outcome.text = <<>> THEN NoDataFromPrompt ELSE outcome.text)

RECURSIVE item_texts(_)
\* The text of the content items, concatenated
item_texts(items) ==
    IF items = <<>>
    THEN <<>>
    ELSE (IF "text" \in DOMAIN Head(items) THEN Head(items).text ELSE <<>>)
            \o item_texts(Tail(items))

\* The text extracted from what call_tool returned
tool_result_text(result) ==
    LET from_content == IF "content" \in DOMAIN result /\ result.content # <<>>
                        THEN item_texts(result.content)
                        ELSE <<>>
    IN  IF from_content = <<>> /\ "text" \in DOMAIN result /\ Truthy(result.text)
        THEN result.text
        ELSE from_content

\* The regular branch of execute_tool_call, from the return of call_tool on
tool_result(tool_call, run) ==
    IF Raised(run.exc)
    THEN error_result(tool_call, run.exc)
    ELSE LET text == tool_result_text(run.ret)
         IN  ToolResult(tool_call, IF text = <<>> THEN NoDataFromTool ELSE text)

\* A coroutine of the fan-out: created, at its await, ended by an exception
\* that left it, or returned
Task(state, exc, req, result) ==
    [state |-> state, exc |-> exc, request |-> req, result |-> result]

PendingTask == Task("pending", NoExc, <<>>, <<>>)

\* The request a coroutine sends: to execute-prompt or through call_tool
RequestOf(tool_call, args) ==
    IF is_prompt(tool_call.name)
    THEN [path |-> "execute-prompt", promptName |-> prompt_name(tool_call.name), parameters |-> args]
    ELSE [path |-> "call_tool", name |-> tool_call.name, arguments |-> args]

\* content and content.strip() and no marker in content
carries_data(content) ==
    /\ Truthy(content)
    /\ ~Contains(content, "[NO_DATA]")
    /\ ~Contains(content, "[ERROR]")

\* The last assistant entry of the transcript
last_assistant_msg(msgs) ==
    LET at == { i \in 1..Len(msgs) : msgs[i].role = "assistant" }
    IN  msgs[CHOOSE i \in at : \A j \in at : j <= i]

\* The last user entry's content
last_user_question(msgs) ==
    LET at == { i \in 1..Len(msgs) : msgs[i].role = "user" }
    IN  msgs[CHOOSE i \in at : \A j \in at : j <= i].content

\* Mutant of with_tool_results: has_data looks at every tool entry of the
\* transcript, not at the last N.
with_tool_results_of_all_turns(msgs, results) ==
    LET n == Len(results)
        appended == msgs \o [i \in 1..n |-> ToolMessage(results[i])]
        has_data == \E i \in 1..Len(appended) :
                        appended[i].role = "tool" /\ carries_data(appended[i].content)
        reminded == IF has_data THEN appended ELSE Append(appended, SystemMessage(NoDataReminder))
        content == last_assistant_msg(reminded).content
        needs_followups == ~(Truthy(content) /\ has_followups(content))
    IN  IF needs_followups
        THEN Append(reminded, SystemMessage(FollowUpReminder))
        ELSE reminded

\* main() after gather has returned: the results are appended in the order
\* of the calls, then the reminders
with_tool_results(msgs, results) ==
    LET n == Len(results)
        appended == msgs \o [i \in 1..n |-> ToolMessage(results[i])]
        recent == SubSeq(appended, Len(appended) - n + 1, Len(appended))
        has_data == \E i \in 1..n : recent[i].role = "tool" /\ carries_data(recent[i].content)
        reminded == IF has_data THEN appended ELSE Append(appended, SystemMessage(NoDataReminder))
        content == last_assistant_msg(reminded).content
        needs_followups == ~(Truthy(content) /\ has_followups(content))
    IN  IF needs_followups
        THEN Append(reminded, SystemMessage(FollowUpReminder))
        ELSE reminded

(* ------------------------------ main() -------------------------------- *)

\* The settings of a session.  chatbot.py reads selected_language and
\* selected_organization as globals and binds them nowhere: a session runs
\* with them bound by its environment, or not.  The flags --language and
\* --organization are parsed into args.language and args.organization,
\* which the call of main() does not pass on; main() does not read its
\* parameters language and organization.
Configs ==
    { [quiet |-> q, names_bound |-> b, selected_language |-> l,
       selected_organization |-> <<"unfoldingWord">>,
       language |-> <<"en">>, organization |-> <<"es-419_gl">>]
        : q \in BOOLEAN, b \in BOOLEAN, l \in { <<"es">> } }

InitChat ==
    /\ client = NewClient
    /\ last = Idle
    /\ tools_fetched = FALSE
    /\ prompts_fetched = FALSE
    /\ pc = "connect"
    /\ config \in Configs
    /\ messages = <<>>
    /\ user_input = None
    /\ assistant_message = <<>>
    /\ tasks = <<>>
    /\ shown = <<>>
    /\ turns = 0
    /\ caught = NoExc
    /\ http_client = [opened |-> 1, closed |-> 0]
    /\ overlapping = NoCalls
    /\ discovery = NoDiscovery

\* print(f"\nAssistant: {text}\n") unless quiet
Show(texts) == shown' = IF config.quiet THEN shown ELSE shown \o texts

\* Mutant of Fail: the failed statement is tried again.
Fail_retried(e) ==
    /\ caught' = e
    /\ pc' = pc

\* An exception reaches `except Exception` of main()
Fail(e) ==
    /\ caught' = e
    /\ pc' = "cleanup"

\* An awaited client call of the start of main(): on success go on at `next`
Startup(at, runs, next) ==
    /\ pc = at
    /\ \E run \in runs :
          /\ client' = run.c
          /\ IF Raised(run.exc)
             THEN Fail(run.exc) /\ UNCHANGED messages
             ELSE IF next = "input" /\ ~config.names_bound
             THEN Fail(Exc("NameError", <<"name 'selected_language' is not defined">>))
                    /\ UNCHANGED messages
             ELSE /\ pc' = next
                  /\ messages' = IF next = "input"
                                 THEN <<SystemMessage(SYSTEM_PROMPT(config))>>
                                 ELSE messages
                  /\ UNCHANGED caught
    /\ UNCHANGED <<last, tools_fetched, prompts_fetched, config, overlapping, discovery, http_client, user_input,
                   assistant_message, tasks, shown, turns>>

\* await mcp_client.connect()
ChatConnect == pc = "connect" /\ Startup("connect", connect(client), "list_tools")

\* tools = await mcp_client.list_tools()
ChatListTools == pc = "list_tools" /\ Startup("list_tools", list_tools(client), "list_prompts")

\* prompts = await mcp_client.list_prompts(), then the system prompt and the
\* first transcript.  prepare_tools_for_provider (translation_helps.adapters)
\* converts the two lists for the model and is taken to return.
ChatListPrompts == pc = "list_prompts" /\ Startup("list_prompts", list_prompts(client), "input")

\* input(), up to the first model call
ReadInput ==
    /\ pc = "input"
    /\ \E line \in Inputs :
          /\ user_input' = line
          /\ IF lower(line) \in exit_words
             THEN pc' = "cleanup" /\ UNCHANGED <<messages, turns>>
             ELSE IF line = <<>>
             THEN UNCHANGED <<pc, messages, turns>>
             ELSE /\ turns < MaxTurns
                  /\ Len(messages) < MaxTranscript
                  /\ turns' = turns + 1
                  /\ messages' = Append(messages, UserMessage(line))
                  /\ pc' = "first_call"
    /\ shown' = <<>>
    /\ tasks' = <<>>
    /\ assistant_message' = <<>>
    /\ UNCHANGED <<client_vars, config, overlapping, discovery, http_client, caught>>

\* if assistant_message.tool_calls: the coroutines are created and gather awaited
StartFanOut(am) ==
    /\ Show(<<PoliteMessage>>)
    /\ tasks' = [i \in 1..Len(am.tool_calls) |-> PendingTask]
    /\ pc' = "fan_out"
    /\ UNCHANGED caught

\* any(keyword in user_question_lower for keyword in bible_keywords)
asks_about_bible(line) == \E i \in 1..Len(line) : LowerToken(line[i]) \in bible_keywords

\* The first model call returns
FirstReply ==
    /\ pc = "first_call"
    /\ \E reply \in ModelReplies :
          IF reply.kind = "raises"
          THEN Fail(ModelError) /\ UNCHANGED <<messages, assistant_message, tasks, shown>>
          ELSE /\ assistant_message' = reply
               /\ IF Truthy(reply.content) /\ reply.tool_calls = <<>>
                  THEN IF asks_about_bible(user_input)
                       THEN /\ messages' = messages \o <<AssistantEntry(reply),
                                                         SystemMessage(UseToolsReminder)>>
                            /\ pc' = "second_call"
                            /\ UNCHANGED <<tasks, shown, caught>>
                       ELSE /\ messages' = Append(messages, AssistantEntry(reply))
                            /\ Show(<<reply.content>>)
                            /\ pc' = "input"
                            /\ UNCHANGED <<tasks, caught>>
                  ELSE /\ messages' = Append(messages, AssistantEntry(reply))
                       /\ IF reply.tool_calls # <<>>
                          THEN StartFanOut(reply)
                          ELSE pc' = "input" /\ UNCHANGED <<tasks, shown, caught>>
    /\ UNCHANGED <<client_vars, config, overlapping, discovery, http_client, user_input, turns>>

\* Mutant of SecondReply: a re-query answered by text alone is asked again.
SecondReply_asked_again ==
    /\ pc = "second_call"
    /\ \E reply \in ModelReplies :
          IF reply.kind = "raises"
          THEN Fail(ModelError) /\ UNCHANGED <<messages, assistant_message, tasks, shown>>
          ELSE /\ assistant_message' = reply
               /\ IF reply.tool_calls # <<>>
                  THEN /\ messages' = replace_last(messages, AssistantEntry(reply))
                       /\ StartFanOut(reply)
                  ELSE /\ messages' = replace_last(messages, SystemMessage(UseToolsReminder))
                       /\ pc' = "second_call"
                       /\ UNCHANGED <<tasks, shown, caught>>
    /\ UNCHANGED <<client_vars, config, overlapping, discovery, http_client, user_input, turns>>

\* The corrective re-query returns
SecondReply ==
    /\ pc = "second_call"
    /\ \E reply \in ModelReplies :
          IF reply.kind = "raises"
          THEN Fail(ModelError) /\ UNCHANGED <<messages, assistant_message, tasks, shown>>
          ELSE /\ assistant_message' = reply
               /\ IF reply.tool_calls # <<>>
                  THEN /\ messages' = replace_last(messages, AssistantEntry(reply))
                       /\ StartFanOut(reply)
                  ELSE IF reply.content = None
                  THEN /\ messages' = replace_last(messages, AssistantEntry(reply))
                       /\ Fail(NoneHasNoLower)
                       /\ UNCHANGED <<tasks, shown>>
                  ELSE LET response_content ==
                               IF has_followups(reply.content)
                               THEN reply.content
                               ELSE reply.content \o followup_text(user_input)
                       IN  /\ messages' = replace_last(replace_last(messages, AssistantEntry(reply)),
                                                       [role |-> "assistant", content |-> response_content])
                           /\ Show(<<response_content>>)
                           /\ pc' = "input"
                           /\ UNCHANGED <<tasks, caught>>
    /\ UNCHANGED <<client_vars, config, overlapping, discovery, http_client, user_input, turns>>

\* The coroutines run in the order of their creation up to their first await
StartTask ==
    /\ pc = "fan_out"
    /\ \E i \in 1..Len(tasks) :
          /\ tasks[i].state = "pending"
          /\ \A j \in 1..(i - 1) : tasks[j].state # "pending"
          /\ LET tool_call == assistant_message.tool_calls[i]
                 prepared == tool_args(config, tool_call)
             IN  tasks' = [tasks EXCEPT ![i] =
                              IF Raised(prepared.exc)
                              THEN Task("raised", prepared.exc, <<>>, <<>>)
                              ELSE Task("running", NoExc, RequestOf(tool_call, prepared.args), <<>>)]
    /\ UNCHANGED <<client_vars, pc, config, overlapping, discovery, http_client, messages, user_input, assistant_message,
                   shown, turns, caught>>

NoTask(state) == \A j \in 1..Len(tasks) : tasks[j].state # state

\* A prompt's execute-prompt request is answered, in any order
CompletePrompt ==
    /\ pc = "fan_out"
    /\ NoTask("pending")
    /\ NoTask("raised")
    /\ \E i \in 1..Len(tasks) :
          /\ tasks[i].state = "running"
          /\ tasks[i].request.path = "execute-prompt"
          /\ \E reply \in PromptReplies :
                LET outcome == prompt_data(reply)
                IN  tasks' = [tasks EXCEPT ![i] =
                                 Task("done", outcome.exc, tasks[i].request,
                                      prompt_result(assistant_message.tool_calls[i], outcome))]
    /\ UNCHANGED <<client_vars, pc, config, overlapping, discovery, http_client, messages, user_input, assistant_message,
                   shown, turns, caught>>

\* The server's answers to the tools/call of a chat session: a transport
\* failure, an error member, a text, an empty text, an empty object
ChatToolReplies ==
    { TransportFailure, Json([error |-> [message |-> <<"Internal error">>]]),
      Json(TextContent(PlainText)), Json(TextContent(<<>>)), Json(<<>>) }

\* A tool's call_tool returns, in any order
CompleteTool ==
    /\ pc = "fan_out"
    /\ NoTask("pending")
    /\ NoTask("raised")
    /\ \E i \in 1..Len(tasks) :
          /\ tasks[i].state = "running"
          /\ tasks[i].request.path = "call_tool"
          /\ \E run \in call_tool(client) :
                /\ run.replies[Len(run.replies)] \in ChatToolReplies
                /\ client' = run.c
                /\ tasks' = [tasks EXCEPT ![i] =
                                Task("done", run.exc, tasks[i].request,
                                     tool_result(assistant_message.tool_calls[i], run))]
    /\ UNCHANGED <<last, tools_fetched, prompts_fetched, pc, config, overlapping, discovery, http_client, messages, user_input,
                   assistant_message, shown, turns, caught>>

\* gather raises the exception that left a coroutine
GatherRaises ==
    /\ pc = "fan_out"
    /\ NoTask("pending")
    /\ \E i \in 1..Len(tasks) :
          /\ tasks[i].state = "raised"
          /\ \A j \in 1..(i - 1) : tasks[j].state # "raised"
          /\ Fail(tasks[i].exc)
    /\ UNCHANGED <<client_vars, config, overlapping, discovery, http_client, messages, user_input, assistant_message, tasks,
                   shown, turns>>

\* Mutant of GatherReturns: gather returns as soon as one coroutine has
\* returned, with the results there are.
GatherReturns_first_completed ==
    /\ pc = "fan_out"
    /\ NoTask("pending")
    /\ \E i \in 1..Len(tasks) : tasks[i].state = "done"
    /\ LET done == SelectSeq(tasks, LAMBDA t : t.state = "done")
       IN  messages' = with_tool_results(messages, [i \in 1..Len(done) |-> done[i].result])
    /\ pc' = "final_call"
    /\ UNCHANGED <<client_vars, config, overlapping, discovery, http_client, user_input, assistant_message, tasks, shown,
                   turns, caught>>

\* gather returns the results, which main() appends before the final model call
GatherReturns ==
    /\ pc = "fan_out"
    /\ \A i \in 1..Len(tasks) : tasks[i].state = "done"
    /\ messages' = with_tool_results(messages, [i \in 1..Len(tasks) |-> tasks[i].result])
    /\ pc' = "final_call"
    /\ UNCHANGED <<client_vars, config, overlapping, discovery, http_client, user_input, assistant_message, tasks, shown,
                   turns, caught>>

\* The final model call returns
FinalReply ==
    /\ pc = "final_call"
    /\ \E reply \in FinalReplies :
          IF reply.kind = "raises"
          THEN Fail(ModelError) /\ UNCHANGED <<messages, shown>>
          ELSE IF reply.content = None
          THEN Fail(NoneHasNoLower) /\ UNCHANGED <<messages, shown>>
          ELSE LET final_content ==
                       IF has_followups(reply.content)
                       THEN reply.content
                       ELSE reply.content \o followup_text(last_user_question(messages))
               IN  /\ messages' = Append(messages, [role |-> "assistant", content |-> final_content])
                   /\ Show(<<final_content>>)
                   /\ pc' = "input"
                   /\ UNCHANGED caught
    /\ UNCHANGED <<client_vars, config, overlapping, discovery, http_client, user_input, assistant_message, tasks, turns>>

\* finally: both clients are closed
Cleanup ==
    /\ pc = "cleanup"
    /\ http_client' = [http_client EXCEPT !.closed = @ + 1]
    /\ client' = close(client)
    /\ pc' = "exited"
    /\ UNCHANGED <<last, tools_fetched, prompts_fetched, config, overlapping, discovery, messages, user_input,
                   assistant_message, tasks, shown, turns, caught>>

NextChat ==
    \/ ChatConnect \/ ChatListTools \/ ChatListPrompts
    \/ ReadInput \/ FirstReply \/ SecondReply
    \/ StartTask \/ CompletePrompt \/ CompleteTool \/ GatherRaises \/ GatherReturns
    \/ FinalReply \/ Cleanup

SpecChat == InitChat /\ [][NextChat]_vars

(* ------------------------ overlapping client calls -------------------- *)

\* connect() and call_tool() are coroutines: a call runs from one await of
\* _http_client.post to the next, and other calls on the same client run in
\* between.  overlapping.created counts the httpx clients created (the last one
\* is self._http_client); a call is [op, at, uses, sent]: its method, the
\* request it awaits ("created" before it has started, then "returned" or
\* "raised"), the transport its request in flight was posted on, and the
\* requests it has sent.
Call(op, at, uses, sent) == [op |-> op, at |-> at, uses |-> uses, sent |-> sent]

InitOverlap ==
    /\ client = NewClient
    /\ last = Idle
    /\ tools_fetched = FALSE
    /\ prompts_fetched = FALSE
    /\ NoChat
    /\ \E ops \in [1..MaxCalls -> {"connect", "call_tool"}] :
          overlapping = [created |-> 0,
                   of |-> [i \in 1..MaxCalls |-> Call(ops[i], "created", 0, <<>>)]]
    /\ discovery = NoDiscovery

\* The call starts: connect() up to `await self._send_request("initialize")`,
\* or, on a connected client, its early return and for call_tool the
\* tools/call request
Begin(i) ==
    /\ overlapping.of[i].at = "created"
    /\ IF client.initialized
       THEN /\ overlapping' = [overlapping EXCEPT !.of[i] =
                            IF @.op = "connect"
                            THEN Call(@.op, "returned", 0, @.sent)
                            ELSE Call(@.op, "tools/call", overlapping.created, Append(@.sent, "tools/call"))]
            /\ UNCHANGED client
       ELSE /\ client' = [client EXCEPT !.http_client = TRUE,
                                        !.leaked = IF client.http_client THEN @ + 1 ELSE @]
            /\ overlapping' = [overlapping EXCEPT !.created = @ + 1,
                                      !.of[i] = Call(@.op, "initialize", overlapping.created + 1, Append(@.sent, "initialize"))]
    /\ UNCHANGED <<last, tools_fetched, prompts_fetched, chat_vars, discovery>>

\* The initialize request is answered: connect() up to the post of tools/list
ReceiveInitialize(i) ==
    /\ overlapping.of[i].at = "initialize"
    /\ \E q \in request(client, "initialize") :
          overlapping' = [overlapping EXCEPT !.of[i] =
                       IF Raised(q.exc) \/ "serverInfo" \notin DOMAIN q.ret
                       THEN Call(@.op, "raised", 0, @.sent)
                       ELSE Call(@.op, "tools/list", overlapping.created, Append(@.sent, "tools/list"))]
    /\ UNCHANGED <<client_vars, chat_vars, discovery>>

\* The tools/list request is answered: _refresh_tools assigns the cache and
\* connect() goes on to the post of prompts/list
ReceiveToolsList(i) ==
    /\ overlapping.of[i].at = "tools/list"
    /\ \E t \in refresh_tools(client) :
          /\ client' = t.c
          /\ overlapping' = [overlapping EXCEPT !.of[i] =
                          IF Raised(t.exc)
                          THEN Call(@.op, "raised", 0, @.sent)
                          ELSE Call(@.op, "prompts/list", overlapping.created, Append(@.sent, "prompts/list"))]
    /\ UNCHANGED <<last, tools_fetched, prompts_fetched, chat_vars, discovery>>

\* The prompts/list request is answered: the inner try of connect(), the
\* flag, and for call_tool the post of tools/call
ReceivePromptsList(i) ==
    /\ overlapping.of[i].at = "prompts/list"
    /\ \E p \in connect_prompts(Run(client, NoExc, <<>>, <<>>, <<>>, None)) :
          /\ client' = p.c
          /\ overlapping' = [overlapping EXCEPT !.of[i] =
                          IF Raised(p.exc)
                          THEN Call(@.op, "raised", 0, @.sent)
                          ELSE IF @.op = "connect"
                          THEN Call(@.op, "returned", 0, @.sent)
                          ELSE Call(@.op, "tools/call", overlapping.created, Append(@.sent, "tools/call"))]
    /\ UNCHANGED <<last, tools_fetched, prompts_fetched, chat_vars, discovery>>

\* The tools/call request is answered: call_tool returns or raises
ReceiveToolsCall(i) ==
    /\ overlapping.of[i].at = "tools/call"
    /\ \E q \in request(client, "tools/call") :
          overlapping' = [overlapping EXCEPT !.of[i] =
                       Call(@.op, IF Raised(q.exc) THEN "raised" ELSE "returned", 0, @.sent)]
    /\ UNCHANGED <<client_vars, chat_vars, discovery>>

NextOverlap ==
    \E i \in 1..MaxCalls :
        \/ Begin(i)
        \/ ReceiveInitialize(i)
        \/ ReceiveToolsList(i)
        \/ ReceivePromptsList(i)
        \/ ReceiveToolsCall(i)

SpecOverlap == InitOverlap /\ [][NextOverlap]_vars

(* ----------------------- discover_language_orgs ---------------------- *)

(* examples/python-chatbot/language_org_discovery.py.  The catalog listing *)
(* is the "data" member of the reply of the Door43 catalog; its entries    *)
(* are taken one by one in the listing's order.                            *)

\* The languages and owners of the catalog in the order of Python's str
\* comparison
StringOrder == << <<"Door43">>, <<"en">>, <<"es">>, <<"es-419">>, <<"unfoldingWord">> >>

\* Well-formed entries: a language, an owner, a title (a name and a
\* resource type)
Resources ==
    { [language |-> l, owner |-> o,
       title |-> IF l = <<"en">> THEN <<"English", "ULT">> ELSE <<"Español", "(", "ULT", ")">>]
        : l \in { <<"en">>, <<"es">>, <<"es-419">> },
          o \in { <<"Door43">>, <<"unfoldingWord">> } }

Catalogs == UNION { [1..n -> Resources] : n \in 0..MaxResources }

\* sorted() of a set of strings
sorted(strings) == SelectSeq(StringOrder, LAMBDA x : x \in strings)

\* resource.get("language") or resource.get("lang") or the prefix of the
\* name; the entries here have no name
lang_code(resource) ==
    IF Truthy(Get(resource, "language", None))
    THEN resource.language
    ELSE Get(resource, "lang", None)

\* The title up to the first "(" or "®", without a resource type at its end
display_name(resource) ==
    IF ~Truthy(Get(resource, "title", None))
    THEN None
    ELSE LET title == resource.title
             stops == { i \in 1..Len(title) : title[i] \in {"(", "®"} }
             upto == IF stops = {} THEN Len(title)
                     ELSE (CHOOSE i \in stops : \A j \in stops : i <= j) - 1
             head == SubSeq(title, 1, upto)
         IN  IF head # <<>> /\ head[Len(head)] \in {"ULT", "UST", "GLT", "GST", "TN", "TW", "TQ", "TA", "TWL"}
             THEN SubSeq(head, 1, Len(head) - 1)
             ELSE head

\* The catalog has been fetched
InitDiscovery ==
    /\ client = NewClient
    /\ last = Idle
    /\ tools_fetched = FALSE
    /\ prompts_fetched = FALSE
    /\ NoChat
    /\ overlapping = NoCalls
    /\ \E data \in Catalogs :
          discovery = [state |-> "fetched", data |-> data, at |-> 1, language_map |-> <<>>,
                       exc |-> NoExc, options |-> <<>>]

\* if not catalog_data.get("data"): return []; else the loop is entered
DiscoverStart ==
    /\ discovery.state = "fetched"
    /\ discovery' = [discovery EXCEPT !.state = IF discovery.data = <<>> THEN "returned" ELSE "loop"]
    /\ UNCHANGED <<client_vars, chat_vars, overlapping>>

\* One iteration of `for resource in catalog_data["data"]`
DiscoverResource ==
    /\ discovery.state = "loop"
    /\ discovery.at <= Len(discovery.data)
    /\ LET resource == discovery.data[discovery.at]
           code == lang_code(resource)
           catalog_lang_code == map_language_to_catalog_code(code)
           org == Get(resource, "owner", None)
           language_map == discovery.language_map
       IN  IF ~Truthy(code) \/ ~Truthy(org)
           THEN discovery' = [discovery EXCEPT !.at = @ + 1]
           ELSE LET entered ==
                        IF catalog_lang_code \notin DOMAIN language_map
                        THEN [k \in DOMAIN language_map \cup {code} |->
                                 IF k = code
                                 THEN [organizations |-> {},
                                       displayName |-> display_name(resource)]
                                 ELSE language_map[k]]
                        ELSE language_map
                IN  IF catalog_lang_code \notin DOMAIN entered
                    THEN discovery' = [discovery EXCEPT !.state = "raised",
                                                        !.exc = Exc("KeyError", catalog_lang_code),
                                                        !.language_map = entered]
                    ELSE discovery' =
                            [discovery EXCEPT !.at = @ + 1,
                                              !.language_map =
                                                  [entered EXCEPT ![catalog_lang_code].organizations
                                                                      = @ \cup {org}]]
    /\ UNCHANGED <<client_vars, chat_vars, overlapping>>

\* The result list is built from the sorted items of the map and returned
DiscoverReturn ==
    /\ discovery.state = "loop"
    /\ discovery.at > Len(discovery.data)
    /\ LET language_map == discovery.language_map
           languages == sorted(DOMAIN language_map)
       IN  discovery' =
               [discovery EXCEPT
                   !.state = "returned",
                   !.options = [i \in 1..Len(languages) |->
                                   [language |-> languages[i],
                                    displayName |-> language_map[languages[i]].displayName,
                                    organizations |-> sorted(language_map[languages[i]].organizations)]]]
    /\ UNCHANGED <<client_vars, chat_vars, overlapping>>

NextDiscovery == DiscoverStart \/ DiscoverResource \/ DiscoverReturn

SpecDiscovery == InitDiscovery /\ [][NextDiscovery]_vars

(* ============================== claims ================================= *)

\* The reply to the last request of the last call
LastReply == last.replies[Len(last.replies)]

IsCall == last.op \notin {"idle", "close"} /\ last.sent # <<>>

(* C1 (as claimed): once a tools/list (prompts/list) fetch has succeeded in *)
(* the session, list_tools() (list_prompts()) returns the cached list and   *)
(* sends no tools/list (prompts/list) request, whatever the list was.       *)
C1_ListsAreServedFromCache ==
    [][ /\ (last'.op = "list_tools" /\ tools_fetched) =>
              /\ ~Raised(last'.exc)
              /\ ~Contains(last'.sent, "tools/list")
              /\ last'.ret = client.tools_cache
        /\ (last'.op = "list_prompts" /\ prompts_fetched) =>
              /\ ~Raised(last'.exc)
              /\ ~Contains(last'.sent, "prompts/list")
              /\ last'.ret = client.prompts_cache ]_vars

\* The request at position i of the last call failed
FailedAt(i, method) == last.sent[i] = method /\ Raised(last.errs[i])

(* C2 (as claimed): in connect() a tools/list failure fails connect(), and  *)
(* any prompts/list failure is swallowed: connect() succeeds, the client is *)
(* connected and the prompts cache is [].                                   *)
C2_AnyPromptsFailureIsSwallowed ==
    last.op = "connect" =>
        \A i \in 1..Len(last.sent) :
            /\ FailedAt(i, "tools/list") => Raised(last.exc)
            /\ FailedAt(i, "prompts/list") =>
                  ~Raised(last.exc) /\ client.initialized /\ client.prompts_cache = <<>>

(* C2 (amended): in connect() a tools/list failure fails connect() with a   *)
(* connection error; a prompts/list failure whose message contains          *)
(* "prompts/list" or "500" is swallowed (connect() succeeds, the client is  *)
(* connected, the prompts cache is []); any other prompts/list failure      *)
(* fails connect() with a connection error, the prompts cache being [] and  *)
(* the client not connected.                                                *)
C2_ToleratedPromptsFailureIsSwallowed ==
    last.op = "connect" =>
        \A i \in 1..Len(last.sent) :
            /\ FailedAt(i, "tools/list") =>
                  last.exc.type = "ConnectionError" /\ ~client.initialized
            /\ FailedAt(i, "prompts/list") =>
                  /\ client.prompts_cache = <<>>
                  /\ IF \E j \in 1..Len(last.errs[i].msg) : last.errs[i].msg[j] \in {"prompts/list", "500"}
                     THEN ~Raised(last.exc) /\ client.initialized
                     ELSE last.exc.type = "ConnectionError" /\ ~client.initialized

C2_Witness ==
    /\ last.op = "connect"
    /\ Len(last.sent) = 3
    /\ FailedAt(3, "prompts/list")
    /\ client.initialized
    /\ client.prompts_cache = <<>>

\* A reply that carries result X, as X or as {result: X}
IsResult(reply) == reply.kind = "json" /\ "error" \notin DOMAIN reply.data

ResultOf(reply) == IF "result" \in DOMAIN reply.data THEN reply.data.result ELSE reply.data

(* C3 (as claimed): a reply carrying X in the {result: X} envelope is       *)
(* handled as the reply X: an initialize result with serverInfo lets the    *)
(* handshake go on, the tool list of a tools/list result is the list        *)
(* cached, the result of tools/call is what call_tool returns.              *)
C3_EnvelopeShapesAreEquivalent ==
    IsCall =>
        \A i \in 1..Len(last.sent) :
            LET reply == last.replies[i]
                final == i = Len(last.sent)
            IN  IsResult(reply) =>
                  /\ (last.sent[i] = "initialize" /\ "serverInfo" \in DOMAIN ResultOf(reply)) => ~final
                  /\ (last.sent[i] = "tools/list" /\ final /\ "tools" \in DOMAIN ResultOf(reply)) =>
                        client.tools_cache = ResultOf(reply).tools
                  /\ (last.op = "call_tool" /\ last.sent[i] = "tools/call") =>
                        ~Raised(last.exc) /\ last.ret = ResultOf(reply)

(* C4 (as claimed): an exception raised while executing a tool call of a   *)
(* fan-out (decoding the arguments, merging language and organization,     *)
(* dispatching, an HTTP or server error, extracting the result) never      *)
(* leaves execute_tool_call: the call ends with a result, marked [ERROR]   *)
(* when it raised and never empty, and the exception does not reach the    *)
(* top level of main().                                                    *)
C4_ToolFailuresAreAbsorbed ==
    \A i \in 1..Len(tasks) :
        /\ tasks[i].state # "raised"
        /\ tasks[i].state = "done" =>
              /\ tasks[i].result.content # <<>>
              /\ Raised(tasks[i].exc) => Contains(tasks[i].result.content, "[ERROR]")

\* The fan-out of the turn has been dispatched and gather has ended
FanOutEnded == tasks # <<>> /\ pc # "fan_out"

\* The position of the last transcript entry that carries tool calls
LastToolCallsAt ==
    LET at == { i \in 1..Len(messages) : "tool_calls" \in DOMAIN messages[i] }
    IN  CHOOSE i \in at : \A j \in at : j <= i

(* C5 (as claimed): after the fan-out of N tool calls, the transcript      *)
(* holds, right after the assistant entry that requested them, exactly N   *)
(* tool-result entries, the i-th with the id and name of the i-th call, in *)
(* whatever order the calls completed.                                     *)
C5_EveryCallHasItsResult ==
    FanOutEnded =>
        LET calls == assistant_message.tool_calls
            at == LastToolCallsAt
        IN  /\ Len(messages) >= at + Len(calls)
            /\ \A i \in 1..Len(calls) :
                  /\ messages[at + i].role = "tool"
                  /\ messages[at + i].tool_call_id = calls[i].id
                  /\ messages[at + i].name = calls[i].name
            /\ \A j \in (at + Len(calls) + 1)..Len(messages) : messages[j].role # "tool"

(* C6 (as claimed): the transcript is append-only: every step leaves the   *)
(* entries it found in place and unchanged, and only adds entries at the   *)
(* end.                                                                    *)
C6_TranscriptIsAppendOnly ==
    [][ /\ Len(messages') >= Len(messages)
        /\ \A i \in 1..Len(messages) : messages'[i] = messages[i] ]_vars

(* C6 (amended): the transcript never shrinks and no entry but the last is *)
(* ever removed, replaced or modified; the last entry is replaced only at  *)
(* the return of the corrective re-query, where the corrective system      *)
(* instruction is overwritten by the model's new reply.                    *)
C6_OnlyTheCorrectiveInstructionIsReplaced ==
    [][ /\ Len(messages') >= Len(messages)
        /\ \A i \in 1..(Len(messages) - 1) : messages'[i] = messages[i]
        /\ (messages # <<>> /\ messages'[Len(messages)] # messages[Len(messages)]) =>
              /\ pc = "second_call"
              /\ messages[Len(messages)] = SystemMessage(UseToolsReminder)
              /\ messages'[Len(messages)].role = "assistant"
              /\ Len(messages') = Len(messages) ]_vars

\* The corrective re-query has returned: its reply stands right after the
\* first reply of the turn, where the corrective instruction was.
C6_Witness ==
    /\ pc \in {"input", "fan_out"}
    /\ Len(messages) >= 4
    /\ \E i \in 1..(Len(messages) - 1) :
          /\ messages[i].role = "assistant"
          /\ messages[i + 1].role = "assistant"

\* A turn has run to its end and main() is back at the input prompt
TurnEnded == pc = "input" /\ Truthy(user_input)

(* C7 (as claimed): when a turn started by a non-empty, non-exit input has *)
(* run without a top-level error and the next input is about to be read,   *)
(* the transcript ends with the turn's final assistant message and, unless *)
(* quiet, that message is the last text shown.                             *)
C7_TurnEndsWithItsReplyShown ==
    TurnEnded =>
        LET final == messages[Len(messages)]
        IN  /\ final.role = "assistant"
            /\ ~config.quiet => (shown # <<>> /\ shown[Len(shown)] = final.content)

\* The caller supplied option k
Supplied(k) == k \in DOMAIN last.options

SendsDefaultOrCallers(k, default) ==
    /\ k \in DOMAIN last.args
    /\ last.args[k] = IF Supplied(k) THEN last.options[k] ELSE default

IsConvenienceCall == last.op = "convenience" /\ last.sent # <<>>

(* C8 (as claimed): every convenience method sends language "en" and        *)
(* organization "unfoldingWord" when the caller's options omit them, and    *)
(* the caller's value when one is supplied.                                 *)
C8_EveryMethodSendsDefaults ==
    IsConvenienceCall =>
        /\ SendsDefaultOrCallers("language", <<"en">>)
        /\ SendsDefaultOrCallers("organization", <<"unfoldingWord">>)

(* C8 (amended): the six fetch_* methods send language "en" and             *)
(* organization "unfoldingWord" when the caller's options omit them and the *)
(* caller's value when one is supplied;                                     *)
(* search_translation_word_across_languages does so for organization only;  *)
(* the other convenience methods apply no default: an omitted language or   *)
(* organization is sent as null or left out of the arguments.               *)
C8_FetchMethodsSendDefaults ==
    IsConvenienceCall =>
        /\ last.method \in FetchMethods =>
              /\ SendsDefaultOrCallers("language", <<"en">>)
              /\ SendsDefaultOrCallers("organization", <<"unfoldingWord">>)
        /\ last.method = "search_translation_word_across_languages" =>
              /\ SendsDefaultOrCallers("organization", <<"unfoldingWord">>)
              /\ "language" \notin DOMAIN last.args
        /\ last.method \notin FetchMethods \cup {"search_translation_word_across_languages"} =>
              \A k \in {"language", "organization"} :
                  ~Supplied(k) => (k \notin DOMAIN last.args \/ last.args[k] = None)

C8_Witness ==
    /\ IsConvenienceCall
    /\ last.method = "fetch_translation_notes"
    /\ Supplied("language") /\ ~Supplied("organization")
    /\ last.args.language = <<"es">>
    /\ last.args.organization = <<"unfoldingWord">>

\* tools/call results without a text payload: no content list (also the
\* {result: X} envelope, whose content is not at the top), an empty content
\* list, a first item without text, an empty text.
TextAbsent(reply) ==
    /\ IsResult(reply)
    /\ \/ "content" \notin DOMAIN reply.data
       \/ reply.data.content = <<>>
       \/ "text" \notin DOMAIN reply.data.content[1]
       \/ reply.data.content[1].text = <<>>

\* tools/call was sent and answered with a result
ToolResultReceived == IsConvenienceCall /\ IsResult(LastReply)

(* C9 (as claimed): for every convenience method and response shape, the    *)
(* method raises a value/format error when the text payload is absent and   *)
(* never returns a falsy or empty result.                                   *)
C9_NeverReturnsFalsy ==
    ToolResultReceived =>
        /\ TextAbsent(LastReply) => last.exc.type = "ValueError"
        /\ ~Raised(last.exc) => ~Falsy(last.ret)

(* C9 (amended): for every convenience method, the method raises a          *)
(* value/format error whenever the text payload is absent or empty (no      *)
(* content list, empty content list, first item without text, empty text);  *)
(* a str-typed method never returns an empty string; a JSON-typed method    *)
(* returns what the text decodes to, which is empty or null exactly when    *)
(* the text is an empty or null JSON value such as {} or null.              *)
C9_RaisesWhenTextAbsent ==
    ToolResultReceived =>
        /\ TextAbsent(LastReply) => last.exc.type = "ValueError"
        /\ (~Raised(last.exc) /\ last.ret.kind = "str") => last.ret.val # <<>>
        /\ (~Raised(last.exc) /\ Falsy(last.ret)) =>
              /\ last.ret.kind \in {"dict", "none"}
              /\ LastReply.data.content[1].text \in { <<"{", "}">>, <<"null">> }

C9_Witness ==
    /\ ToolResultReceived
    /\ last.method = "fetch_translation_notes"
    /\ LastReply = Json([content |-> <<[type |-> "image"]>>])
    /\ last.exc.type = "ValueError"

IsValueError(e) == e.type \in {"ValueError", "JSONDecodeError"}

HttpLevelFailure(reply) == reply.kind \in {"transport", "status"}

RECURSIVE CacheAfter(_, _, _, _, _, _)
\* The cache a call should leave, from the cache it found: each answered
\* `method` request of the call, from the i-th on, sets it to the list of
\* the response (its `key` member, [] when it has none); a failed request
\* leaves it, or empties it when it is the request at position `clearing`.
CacheAfter(cache, call, method, key, clearing, i) ==
    IF i > Len(call.sent)
    THEN cache
    ELSE CacheAfter(IF call.sent[i] # method
                    THEN cache
                    ELSE IF ~Raised(call.errs[i])
                    THEN Get(call.replies[i].data, key, <<>>)
                    ELSE IF i = clearing THEN <<>> ELSE cache,
                    call, method, key, clearing, i + 1)

\* The position of the prompts/list request of a connect handshake in the
\* call (the handshake is initialize, tools/list, prompts/list), 0 if none
HandshakePrompts(call) ==
    IF Len(call.sent) >= 3 /\ call.sent[1] = "initialize" THEN 3 ELSE 0

(* C11 (as claimed): every call leaves in the tools cache (prompts cache)   *)
(* the list of its last answered tools/list (prompts/list) response, or    *)
(* what it found when it had none answered; a failed fetch changes no      *)
(* cache.                                                                  *)
C11_CachesFollowAnsweredFetches ==
    [][ last'.op # "idle" =>
            /\ client'.tools_cache = CacheAfter(client.tools_cache, last', "tools/list", "tools", 0, 1)
            /\ client'.prompts_cache =
                  CacheAfter(client.prompts_cache, last', "prompts/list", "prompts", 0, 1) ]_vars

(* C11 (amended): every call leaves in the tools cache the list of its     *)
(* last answered tools/list response, or what it found when it had none    *)
(* answered, and a failed tools/list changes no cache; the same holds of   *)
(* the prompts cache and prompts/list, except that a prompts/list failing  *)
(* inside the connect handshake empties the prompts cache.                 *)
C11_CachesFollowFetchesButConnectEmptiesPrompts ==
    [][ last'.op # "idle" =>
            /\ client'.tools_cache = CacheAfter(client.tools_cache, last', "tools/list", "tools", 0, 1)
            /\ client'.prompts_cache =
                  CacheAfter(client.prompts_cache, last', "prompts/list", "prompts",
                             HandshakePrompts(last'), 1) ]_vars

\* A handshake whose tools/list was answered and whose prompts/list failed:
\* the tools cache holds the list of the response, the prompts cache is empty.
C11_Witness ==
    /\ last.op = "connect"
    /\ Len(last.sent) = 3
    /\ ~Raised(last.errs[2])
    /\ Raised(last.errs[3])
    /\ client.tools_cache # <<>>
    /\ client.tools_cache = Get(last.replies[2].data, "tools", <<>>)
    /\ client.prompts_cache = <<>>

Handshake == <<"initialize", "tools/list", "prompts/list">>

(* C12: a call_tool on a client that is not connected sends the handshake  *)
(* initialize, tools/list, prompts/list first; it sends tools/call only    *)
(* once, as its last request, on a client that was connected or that the   *)
(* handshake has just connected; when the lazy connect fails it raises and *)
(* has sent no tools/call.                                                 *)
C12_ToolsCallOnlyAfterHandshake ==
    [][ last'.op = "call_tool" =>
            LET s == last'.sent
                n == Len(s)
            IN  /\ \A i \in 1..n : s[i] = "tools/call" => i = n
                /\ client.initialized => s = <<"tools/call">>
                /\ ~client.initialized =>
                      /\ n >= 1
                      /\ \A i \in 1..n : i <= 3 => s[i] = Handshake[i]
                      /\ Contains(s, "tools/call") =>
                            /\ n = 4
                            /\ ~Raised(last'.errs[1])
                            /\ ~Raised(last'.errs[2])
                            /\ client'.initialized
                      /\ ~Contains(s, "tools/call") =>
                            /\ Raised(last'.exc)
                            /\ ~client'.initialized ]_vars

\* A call_tool that connected first and then sent tools/call
C12_Witness ==
    /\ last.op = "call_tool"
    /\ last.sent = Handshake \o <<"tools/call">>
    /\ client.initialized

(* C13: connect() on a connected client returns without raising, sends no  *)
(* request, opens no transport and leaves every field of the client (the   *)
(* caches, the connected flag, the transport) as it found it, however      *)
(* often it is repeated.                                                   *)
C13_ConnectOnConnectedIsNoOp ==
    [][ (last'.op = "connect" /\ client.initialized) =>
            /\ ~Raised(last'.exc)
            /\ last'.sent = <<>>
            /\ client' = client ]_vars

\* connect() has returned on a client that was connected
C13_Witness ==
    /\ last.op = "connect"
    /\ last.sent = <<>>
    /\ client.initialized
    /\ Truthy(client.tools_cache)

\* The call began a connect handshake and the initialize request was
\* answered with a result that has no serverInfo
InitializeLacksServerInfo(call) ==
    /\ call.op \notin {"idle", "close"}
    /\ call.sent # <<>>
    /\ call.sent[1] = "initialize"
    /\ IsResult(call.replies[1])
    /\ "serverInfo" \notin DOMAIN call.replies[1].data

(* C14: when the initialize response lacks serverInfo, connect() (called   *)
(* by the user or lazily) raises a connection error, has sent nothing but  *)
(* initialize, and leaves the client not connected with both caches as     *)
(* they were.                                                              *)
C14_MissingServerInfoFailsConnect ==
    [][ InitializeLacksServerInfo(last') =>
            /\ last'.exc.type = "ConnectionError"
            /\ last'.sent = <<"initialize">>
            /\ ~client'.initialized
            /\ client'.tools_cache = client.tools_cache
            /\ client'.prompts_cache = client.prompts_cache ]_vars

\* A reconnect after close() failed on the initialize response; the caches
\* of the earlier connection are still there
C14_Witness ==
    /\ last.op = "connect"
    /\ InitializeLacksServerInfo(last)
    /\ Truthy(client.tools_cache)
    /\ ~client.initialized

(* C15: whenever the final model call of a turn is in progress, every tool *)
(* call the turn dispatched (one coroutine per tool call of the reply) has *)
(* returned, with a result or a marker; none is unstarted, still running   *)
(* or ended by an exception.                                               *)
C15_FinalCallAfterAllToolCalls ==
    pc = "final_call" =>
        /\ Len(tasks) = Len(assistant_message.tool_calls)
        /\ tasks # <<>>
        /\ \A i \in 1..Len(tasks) :
              /\ tasks[i].state = "done"
              /\ tasks[i].result.tool_call_id = assistant_message.tool_calls[i].id
              /\ tasks[i].result.content # <<>>

\* The final model call follows a fan-out of two tool calls
C15_Witness ==
    /\ pc = "final_call"
    /\ Len(tasks) = 2
    /\ \A i \in 1..2 : tasks[i].state = "done"

\* The text of a tool result is real data: not blank and without a marker
RealData(content) ==
    /\ content # <<>>
    /\ \A j \in 1..Len(content) : content[j] \notin {"[NO_DATA]", "[ERROR]"}

\* The no-data reminder stands in the transcript after the tool calls of
\* the turn
RemindedOfNoData ==
    \E j \in (LastToolCallsAt + 1)..Len(messages) :
        messages[j] = SystemMessage(NoDataReminder)

(* C16: when the final model call of a turn is made, the no-data reminder  *)
(* has been appended after the turn's tool results if and only if none of  *)
(* the results of this turn's tool calls is real data; the tool results of *)
(* earlier turns play no part.                                             *)
C16_NoDataReminderIffNoRealData ==
    pc = "final_call" =>
        (RemindedOfNoData <=> \A i \in 1..Len(tasks) : ~RealData(tasks[i].result.content))

\* A second turn whose tool calls found nothing, after a turn whose tool
\* call returned data: the reminder is there
C16_Witness ==
    /\ pc = "final_call"
    /\ turns = 2
    /\ \E j \in 1..(LastToolCallsAt - 1) :
          messages[j].role = "tool" /\ RealData(messages[j].content)
    /\ \A i \in 1..Len(tasks) : ~RealData(tasks[i].result.content)
    /\ RemindedOfNoData

\* main() has left its try block
SessionEnded == pc \in {"cleanup", "exited"}

(* C17: however a chatbot session ends (exit word, failed connect, failed  *)
(* model call, any other exception at the top level), the failure ends the *)
(* session at once without a retry, no model reply is handled and no tool  *)
(* call is started afterwards, and the shared client of the prompt         *)
(* executions and the transport of the MCP client are each opened once and *)
(* closed once, by the time the program has finished.                      *)
C17_SessionEndsOnceAndClosesBoth ==
    [][ /\ (Raised(caught') /\ ~Raised(caught)) => (pc' = "cleanup" /\ pc # "cleanup")
        /\ SessionEnded =>
              /\ pc' = "exited"
              /\ messages' = messages
              /\ assistant_message' = assistant_message
              /\ tasks' = tasks
              /\ last' = last
              /\ caught' = caught
        /\ (~client.http_client /\ client'.http_client) => pc = "connect"
        /\ client'.leaked = 0
        /\ http_client'.opened = 1
        /\ ((client.http_client /\ ~client'.http_client) \/ http_client'.closed # http_client.closed)
              => (pc = "cleanup" /\ pc' = "exited")
        /\ pc' = "exited" =>
              /\ ~client'.http_client
              /\ http_client' = [opened |-> 1, closed |-> 1]
      ]_vars

\* A session has finished after a model call failed during its second turn,
\* with both clients closed
C17_Witness ==
    /\ pc = "exited"
    /\ caught = ModelError
    /\ turns = 2
    /\ ~client.http_client
    /\ client.leaked = 0
    /\ http_client = [opened |-> 1, closed |-> 1]

C19_FanOutLeavesCachesAlone ==
    [][ pc = "fan_out" =>
            /\ client.initialized
            /\ client'.initialized
            /\ client'.tools_cache = client.tools_cache
            /\ client'.prompts_cache = client.prompts_cache
      ]_vars

\* Of two tool calls the second has returned before the first
C19_Witness ==
    /\ pc = "fan_out"
    /\ Len(tasks) = 2
    /\ tasks[1].state = "running"
    /\ tasks[2].state = "done"
    /\ tasks[2].request.path = "call_tool"
    /\ client.initialized
    /\ Truthy(client.tools_cache)

(* C20: close(), called on a client that never connected, is connected or  *)
(* is already closed, returns without a request, leaves the client without *)
(* transport and not connected, and leaves the tools cache and the prompts *)
(* cache as they were.                                                     *)
C20_CloseKeepsTheCaches ==
    [][ last'.op = "close" =>
            /\ ~Raised(last'.exc)
            /\ last'.sent = <<>>
            /\ ~client'.http_client
            /\ ~client'.initialized
            /\ client'.tools_cache = client.tools_cache
            /\ client'.prompts_cache = client.prompts_cache
            /\ client'.leaked = client.leaked
      ]_vars

\* close() has returned on a client whose caches were filled by a handshake
C20_Witness ==
    /\ last.op = "close"
    /\ ~client.http_client
    /\ ~client.initialized
    /\ Truthy(client.tools_cache)
    /\ Truthy(client.prompts_cache)

(* C21: a first model reply with text and no tool calls, to an input with  *)
(* a domain keyword, appends the corrective instruction and leads to one   *)
(* re-query, and no other reply does; within a turn the statements follow  *)
(* first call, re-query, fan-out, final call in this order without going   *)
(* back, so a turn makes at most three model calls and one fan-out, and    *)
(* the final call leads to the next input (or the end of the session),     *)
(* never to tool calls.                                                    *)
C21_OneReQueryAndNoSecondRound ==
    [][ /\ (pc = "first_call" /\ pc' # "cleanup") =>
              ((pc' = "second_call") <=>
                  /\ Truthy(assistant_message'.content)
                  /\ assistant_message'.tool_calls = <<>>
                  /\ asks_about_bible(user_input))
        /\ pc' = "second_call" =>
              /\ pc = "first_call"
              /\ messages' = messages \o <<AssistantEntry(assistant_message'),
                                           SystemMessage(UseToolsReminder)>>
        /\ pc = "first_call" => pc' \in {"second_call", "fan_out", "input", "cleanup"}
        /\ pc = "second_call" => pc' \in {"fan_out", "input", "cleanup"}
        /\ pc = "fan_out" => pc' \in {"fan_out", "final_call", "cleanup"}
        /\ pc = "final_call" => (pc' \in {"input", "cleanup"} /\ tasks' = tasks)
        /\ pc' = "first_call" => (pc = "input" /\ turns' = turns + 1)
        /\ turns' # turns => (pc = "input" /\ pc' = "first_call")
        /\ tasks' # tasks => (pc' = "fan_out" \/ pc = "input")
      ]_vars

\* The third model call of a turn is due: the first reply was text, the
\* re-query asked for tools, and the tools have run
C21_Witness ==
    /\ pc = "final_call"
    /\ LastToolCallsAt > 2
    /\ messages[LastToolCallsAt - 1].role = "assistant"
    /\ messages[LastToolCallsAt - 2].role = "user"
    /\ asks_about_bible(user_input)

\* The turn that has just ended ran tool calls
TurnRanTools == tasks # <<>>

\* The text has a follow-up indicator phrase
HasIndicator(content) ==
    /\ content # None
    /\ \E i \in 1..Len(content) : LowerToken(content[i]) \in followup_indicators

(* C22 (as claimed): when a turn that ran tool calls, or a turn whose      *)
(* input has a domain keyword and that ran none, has ended, the assistant  *)
(* message recorded last has a follow-up indicator phrase.                 *)
C22_FinalMessagesCarryFollowUps ==
    (TurnEnded /\ (TurnRanTools \/ asks_about_bible(user_input))) =>
        LET final == messages[Len(messages)]
        IN  final.role = "assistant" /\ HasIndicator(final.content)

\* The same, for the turns in which a final text was composed: after tool
\* calls, or after the corrective re-query
C22_ComposedFinalMessagesCarryFollowUps ==
    (TurnEnded /\ (TurnRanTools \/ asks_about_bible(user_input))
               /\ messages[Len(messages)].content # None) =>
        LET final == messages[Len(messages)]
        IN  final.role = "assistant" /\ HasIndicator(final.content)

\* The coroutine of tool call i has sent its request
Dispatched(i) == tasks[i].state \in {"running", "done"}

\* The request of tool call i went where its name says, a prompt under the
\* name `name`
DispatchedAs(i, name) ==
    LET tool_call == assistant_message.tool_calls[i]
        request_i == tasks[i].request
    IN  IF tool_call.name[1] = "prompt_"
        THEN /\ request_i.path = "execute-prompt"
             /\ request_i.promptName = name
             /\ request_i.parameters = tool_args(config, tool_call).args
        ELSE /\ request_i.path = "call_tool"
             /\ request_i.name = tool_call.name
             /\ request_i.arguments = tool_args(config, tool_call).args

(* C23 (as claimed): a tool call whose name starts with "prompt_" goes to  *)
(* the execute-prompt path only, with promptName the tool name without     *)
(* that leading prefix and parameters the merged arguments; every other    *)
(* tool call goes through call_tool only.                                  *)
C23_PromptsAreExecutedUnderTheirName ==
    \A i \in 1..Len(tasks) :
        Dispatched(i) => DispatchedAs(i, Tail(assistant_message.tool_calls[i].name))

\* The same, with promptName the tool name without any "prompt_"
C23_PromptsAreExecutedWithoutAnyPrefix ==
    \A i \in 1..Len(tasks) :
        Dispatched(i) =>
            DispatchedAs(i, SelectSeq(assistant_message.tool_calls[i].name,
                                      LAMBDA tok : tok # "prompt_"))

\* The arguments the model gave for tool call i, decoded
GivenArguments(i) == json_loads(assistant_message.tool_calls[i].arguments).value.val

\* The arguments tool call i was sent with
SentArguments(i) ==
    IF tasks[i].request.path = "execute-prompt"
    THEN tasks[i].request.parameters
    ELSE tasks[i].request.arguments

\* Tool call i was sent with the model's arguments, the language mapped to
\* its catalog code, and `language` / `organization` where the model gave none
SentWithSettings(i, language, organization) ==
    LET given == GivenArguments(i)
        sent == SentArguments(i)
    IN  /\ DOMAIN sent = DOMAIN given \cup {"language", "organization"}
        /\ sent.language = map_language_to_catalog_code(
                               IF "language" \in DOMAIN given THEN given.language ELSE language)
        /\ sent.organization =
               IF "organization" \in DOMAIN given THEN given.organization ELSE organization
        /\ \A k \in DOMAIN given \ {"language", "organization"} : sent[k] = given[k]

(* C24 (as claimed): every executed tool call carries the model's          *)
(* arguments, with "language" the catalog code of the model's value or,    *)
(* without one, of the language chosen with --language, and "organization" *)
(* the model's value or, without one, the organization chosen with         *)
(* --organization; no other argument is altered.                           *)
C24_ArgumentsCarryTheChosenSettings ==
    \A i \in 1..Len(tasks) :
        Dispatched(i) => SentWithSettings(i, config.language, config.organization)

\* The same, with the values of the names selected_language and
\* selected_organization in place of the flags
C24_ArgumentsCarryTheBoundNames ==
    \A i \in 1..Len(tasks) :
        Dispatched(i) =>
            SentWithSettings(i, config.selected_language, config.selected_organization)

\* Every prompts/list request of the call met a server without prompt support
PromptsStillUnsupported(call) ==
    \A i \in 1..Len(call.sent) :
        call.sent[i] = "prompts/list" => call.replies[i] \in PromptsUnsupported

(* C25 (as claimed): on a client that connect() has connected although the *)
(* prompts/list request failed, for want of prompt support on the server,  *)
(* a list_prompts() call against the same server returns the empty list    *)
(* and does not raise.                                                     *)
C25_ListPromptsSurvivesMissingPrompts ==
    [][ (/\ last'.op = "list_prompts"
         /\ client.initialized
         /\ ~prompts_fetched
         /\ PromptsStillUnsupported(last'))
            => (~Raised(last'.exc) /\ last'.ret = <<>>)
      ]_vars

\* Call i has a request in flight
InFlight(i) == overlapping.of[i].at \in {"initialize", "tools/list", "prompts/list", "tools/call"}

(* C26 (as claimed): when connect() and call_tool() calls overlap on a     *)
(* client that is not connected, one transport is created, one call sends  *)
(* the handshake, each of its requests once, and the transport of a        *)
(* request in flight is still the client's transport.                      *)
C26_OverlappingCallsShareOneHandshake ==
    /\ (\E i \in 1..Len(overlapping.of) : overlapping.of[i].at # "created") => overlapping.created = 1
    /\ \A i, j \in 1..Len(overlapping.of) :
          (Contains(overlapping.of[i].sent, "initialize") /\ Contains(overlapping.of[j].sent, "initialize"))
              => i = j
    /\ \A i \in 1..Len(overlapping.of) : InFlight(i) => overlapping.of[i].uses = overlapping.created

\* main() awaits the reply of a model call
AtModelCall == pc \in {"first_call", "second_call", "final_call"}

(* C27 (as claimed): a model call that returns a reply, and so one that    *)
(* returns a reply with null content and no tool calls, does not end the   *)
(* session, at the first call, the re-query or the final call: the session *)
(* ends at a model call only when the call itself raised.                  *)
C27_NullContentNeverEndsTheSession ==
    [][ (AtModelCall /\ pc' = "cleanup") => caught' = ModelError ]_vars

\* The same for the first model call alone
C27_NullContentAtFirstCallIsSkipped ==
    [][ (pc = "first_call" /\ pc' = "cleanup") => caught' = ModelError ]_vars

\* Entry i of the transcript is an assistant entry with tool calls
CarriesToolCalls(i) == "tool_calls" \in DOMAIN messages[i]

(* C28: in every transcript a model call is made with, each assistant      *)
(* entry with tool calls is followed at once by one tool-result entry per  *)
(* tool call, with the ids of the calls in their order, and by no further  *)
(* tool-result entry; and every tool-result entry is one of these.         *)
C28_ToolResultsFollowTheirCalls ==
    AtModelCall =>
        /\ \A i \in 1..Len(messages) :
              CarriesToolCalls(i) =>
                  LET n == Len(messages[i].tool_calls)
                  IN  /\ n > 0
                      /\ i + n <= Len(messages)
                      /\ \A k \in 1..n :
                            /\ messages[i + k].role = "tool"
                            /\ messages[i + k].tool_call_id = messages[i].tool_calls[k].id
                      /\ i + n < Len(messages) => messages[i + n + 1].role # "tool"
        /\ \A j \in 1..Len(messages) :
              messages[j].role = "tool" =>
                  \E i \in 1..(j - 1) :
                      CarriesToolCalls(i) /\ j <= i + Len(messages[i].tool_calls)

\* The final call of a second turn with tool calls, after a first turn
\* with tool calls
C28_Witness ==
    /\ pc = "final_call"
    /\ \E i \in 1..(LastToolCallsAt - 1) : CarriesToolCalls(i)
    /\ messages[LastToolCallsAt + 1].role = "tool"

\* The transports that are open: the one the client holds and the ones it
\* has dropped without closing
OpenTransports == (IF client.http_client THEN 1 ELSE 0) + client.leaked

(* C29 (as claimed): after any sequence of client calls at most one        *)
(* transport is open, and when close() has returned none is: no transport  *)
(* is left open without a reference.                                       *)
C29_NoTransportIsLeaked ==
    /\ OpenTransports <= 1
    /\ last.op = "close" => OpenTransports = 0

\* The same for the transport the client holds
C29_CloseClosesTheHeldTransport ==
    last.op = "close" => ~client.http_client

\* The position of a string in Python's order
Rank(x) == CHOOSE i \in 1..Len(StringOrder) : StringOrder[i] = x

\* The strings of the list ascend, without duplicates
Ascending(strings) ==
    \A i \in 1..(Len(strings) - 1) : Rank(strings[i]) < Rank(strings[i + 1])

\* The catalog codes of the listing, and the owners of the resources of one
CatalogCodes ==
    { map_language_to_catalog_code(discovery.data[i].language) : i \in 1..Len(discovery.data) }

OwnersOf(code) ==
    { discovery.data[i].owner :
        i \in { j \in 1..Len(discovery.data) :
                  map_language_to_catalog_code(discovery.data[j].language) = code } }

(* C30 (as claimed): discover_language_orgs does not raise on a listing of *)
(* well-formed entries, in any order, and returns one option per catalog   *)
(* language code of the listing, the options ascending by language, each   *)
(* with the owners of the resources of that code, ascending and without    *)
(* duplicates.                                                             *)
C30_OneOptionPerCatalogLanguage ==
    /\ discovery.state # "raised"
    /\ discovery.state = "returned" =>
          LET options == discovery.options
          IN  /\ { options[i].language : i \in 1..Len(options) } = CatalogCodes
              /\ Ascending([i \in 1..Len(options) |-> options[i].language])
              /\ \A i \in 1..Len(options) :
                    /\ Ascending(options[i].organizations)
                    /\ { options[i].organizations[k] : k \in 1..Len(options[i].organizations) }
                          = OwnersOf(options[i].language)

\* The same for the listings in which no language is mapped to another code
C30_OneOptionPerUnmappedLanguage ==
    (\A i \in 1..Len(discovery.data) :
        map_language_to_catalog_code(discovery.data[i].language) = discovery.data[i].language)
        => C30_OneOptionPerCatalogLanguage

====
